---------------------------- MODULE Spec2Model ----------------------------
(***************************************************************************)
(* A model of the DNA analysis MCP server (src/src/index.ts).              *)
(*                                                                         *)
(* A JavaScript string is a sequence of one-character strings.  A value    *)
(* that is not a string (it can only come out of JSON.parse) is the marker *)
(* NonString followed by the characters of its canonical JSON text, so     *)
(* every element of an identifier list is a sequence of strings and two    *)
(* values are equal exactly when their sequences are.                      *)
(***************************************************************************)
EXTENDS Naturals, Sequences, FiniteSets, TLC

VARIABLES
    stage,        \* SpecValidate, SpecNormalize: "input", then "done"
    rsid,         \* SpecValidate: the argument of validateRsid
    verdict,      \* SpecValidate: what validateRsid returned
    rsidsInput,   \* SpecNormalize: the rsids argument, [tag, val]
    normalized,   \* SpecNormalize: what the normalization produced
    store,        \* Spec: the subject directory addressed by the requests
    pc,           \* Spec: where the handler of the request in flight stands
    request,      \* Spec: request.params of the request in flight
    rsids,        \* Spec: the local rsids of query_snp_data
    fileContent,  \* Spec: the text safeReadFile resolved with
    response,     \* Spec: the value the handler returned
    fsTrace,      \* Spec: the filesystem calls made for this request, in order
    items,        \* Spec: list_subjects, the names of readdir not yet looked at
    subjects,     \* Spec: the local subjects of list_subjects
    readPc,       \* SpecRead: where the executor of safeReadFile stands
    timer,        \* SpecRead: the timeout of safeReadFile
    promise,      \* SpecRead: the promise safeReadFile returned, and the file read
    inflight      \* SpecConcurrent: the locals of each request in flight

vars == <<stage, rsid, verdict, rsidsInput, normalized, store, pc, request, rsids,
          fileContent, response, fsTrace, items, subjects, readPc, timer, promise,
          inflight>>

validateVars == <<rsid, verdict>>
normalizeVars == <<rsidsInput, normalized>>
handlerVars == <<store, pc, request, rsids, fileContent, response, fsTrace, items,
                 subjects>>
readVars == <<readPc, timer, promise>>
concurrentVars == <<inflight>>

(***************************************************************************)
(* Characters and strings                                                  *)
(***************************************************************************)

\* A no-break space: white space to String.prototype.trim, not to JSON.
NBSP == "NBSP"

\* The characters String.prototype.trim removes (those the model uses).
TrimSpace == {" ", "\t", "\n", "\r", NBSP}

\* The characters JSON.parse skips between tokens.
JsonSpace == {" ", "\t", "\n", "\r"}

\* What \d matches in a JavaScript regular expression.
Digits == {"0", "1", "2", "3", "4", "5", "6", "7", "8", "9"}

\* The marker that starts a value that is not a string.
NonString == "#json"

IsString(v) == v = <<>> \/ v[1] # NonString

\* Every sequence over S of length at most n.
SeqsUpTo(S, n) == UNION {[1..k -> S] : k \in 0..n}

\* n copies of x.
Rep(x, n) == [i \in 1..n |-> x]

RECURSIVE Flatten(_)
\* The concatenation of a sequence of sequences.
Flatten(ss) == IF ss = <<>> THEN <<>> ELSE Head(ss) \o Flatten(Tail(ss))

RECURSIVE TrimStart(_)
TrimStart(s) ==
    IF s # <<>> /\ Head(s) \in TrimSpace THEN TrimStart(Tail(s)) ELSE s

RECURSIVE TrimEnd(_)
TrimEnd(s) ==
    IF s # <<>> /\ s[Len(s)] \in TrimSpace
    THEN TrimEnd(SubSeq(s, 1, Len(s) - 1))
    ELSE s

\* String.prototype.trim
Trim(s) == TrimEnd(TrimStart(s))

\* s.startsWith(c), s.endsWith(c) for a one-character c
StartsWith(s, c) == s # <<>> /\ s[1] = c
EndsWith(s, c) == s # <<>> /\ s[Len(s)] = c

(***************************************************************************)
(* validateRsid                                                            *)
(***************************************************************************)

\* /^rs\d+$/.test(s): no flags, so ^ and $ are the two ends of s.
RsidPatternTest(s) ==
    /\ Len(s) >= 3
    /\ s[1] = "r"
    /\ s[2] = "s"
    /\ \A i \in 3..Len(s) : s[i] \in Digits

\* validateRsid without the trim.
validateRsid_NoTrim(s) == RsidPatternTest(s)

\* validateRsid(rsid) for a string rsid.
validateRsid(s) == RsidPatternTest(Trim(s))

\* rsid.trim() throws a TypeError when rsid is not a string.
ValidateThrows(v) == ~IsString(v)

(***************************************************************************)
(* JSON.parse and JSON.stringify, for the texts the model builds: arrays,  *)
(* strings with the two-character escapes, unsigned integers and the three *)
(* literals.  Signs, fractions, exponents, objects and \u escapes need     *)
(* characters that no input of the model holds.                            *)
(***************************************************************************)

ParseFail == [ok |-> FALSE, val |-> <<>>, elems |-> <<>>, next |-> 0]

\* The character a two-character escape stands for, "" when there is none.
Unescape(e) ==
    CASE e = "\"" -> "\""
      [] e = "\\" -> "\\"
      [] e = "/"  -> "/"
      [] e = "n"  -> "\n"
      [] e = "t"  -> "\t"
      [] e = "r"  -> "\r"
      [] OTHER    -> ""

\* The escape JSON.stringify writes for c, <<c>> when c is written as it is.
Escape(c) ==
    CASE c = "\"" -> <<"\\", "\"">>
      [] c = "\\" -> <<"\\", "\\">>
      [] c = "\n" -> <<"\\", "n">>
      [] c = "\t" -> <<"\\", "t">>
      [] c = "\r" -> <<"\\", "r">>
      [] OTHER    -> <<c>>

\* JSON.stringify of a string: quoted, with its characters escaped.
Quote(s) == <<"\"">> \o Flatten([i \in 1..Len(s) |-> Escape(s[i])]) \o <<"\"">>

\* The JSON text of a value.
ValueText(v) == IF IsString(v) THEN Quote(v) ELSE Tail(v)

RECURSIVE JoinTexts(_, _)
\* Array.prototype.join: the texts of ts with sep between them.
JoinTexts(ts, sep) ==
    IF ts = <<>> THEN <<>>
    ELSE IF Len(ts) = 1 THEN ts[1]
    ELSE ts[1] \o sep \o JoinTexts(Tail(ts), sep)

\* JSON.stringify of an array of values.
Stringify(list) ==
    <<"[">> \o JoinTexts([i \in 1..Len(list) |-> ValueText(list[i])], <<",">>)
            \o <<"]">>

RECURSIVE SkipSpace(_, _)
\* The first position at or after i that holds no JSON white space.
SkipSpace(s, i) ==
    IF i <= Len(s) /\ s[i] \in JsonSpace THEN SkipSpace(s, i + 1) ELSE i

RECURSIVE ParseString(_, _, _)
\* The string literal whose opening quote is just before position i.
ParseString(s, i, acc) ==
    IF i > Len(s) THEN ParseFail
    ELSE IF s[i] = "\"" THEN [ok |-> TRUE, val |-> acc, elems |-> <<>>, next |-> i + 1]
    ELSE IF s[i] = "\\"
         THEN IF i + 1 <= Len(s) /\ Unescape(s[i + 1]) # ""
              THEN ParseString(s, i + 2, Append(acc, Unescape(s[i + 1])))
              ELSE ParseFail
    ELSE IF s[i] \in {"\t", "\n", "\r"} THEN ParseFail
    ELSE ParseString(s, i + 1, Append(acc, s[i]))

RECURSIVE DigitsEnd(_, _)
\* The first position at or after i that holds no digit.
DigitsEnd(s, i) == IF i <= Len(s) /\ s[i] \in Digits THEN DigitsEnd(s, i + 1) ELSE i

\* The unsigned integer that starts at position i: no leading zero.
ParseNumber(s, i) ==
    LET j == DigitsEnd(s, i)
    IN  IF s[i] = "0" /\ j > i + 1 THEN ParseFail
        ELSE [ok |-> TRUE, val |-> <<NonString>> \o SubSeq(s, i, j - 1),
              elems |-> <<>>, next |-> j]

\* The literal word at position i.
ParseLiteral(s, i, word) ==
    IF i + Len(word) - 1 <= Len(s) /\ SubSeq(s, i, i + Len(word) - 1) = word
    THEN [ok |-> TRUE, val |-> <<NonString>> \o word, elems |-> <<>>,
          next |-> i + Len(word)]
    ELSE ParseFail

RECURSIVE ParseValue(_, _)
RECURSIVE ParseElements(_, _, _)

\* The elements of an array after its "[" (and after a "," when acc is not
\* empty), up to and including its "]".
ParseElements(s, i, acc) ==
    LET j == SkipSpace(s, i)
    IN  IF j > Len(s) THEN ParseFail
        ELSE IF s[j] = "]" /\ acc = <<>>
             THEN [ok |-> TRUE, val |-> <<NonString, "[", "]">>, elems |-> <<>>,
                   next |-> j + 1]
        ELSE LET v == ParseValue(s, j)
                 k == SkipSpace(s, v.next)
                 all == Append(acc, v.val)
             IN  IF ~v.ok \/ k > Len(s) THEN ParseFail
                 ELSE IF s[k] = "]"
                      THEN [ok |-> TRUE, val |-> <<NonString>> \o Stringify(all),
                            elems |-> all, next |-> k + 1]
                 ELSE IF s[k] = "," THEN ParseElements(s, k + 1, all)
                 ELSE ParseFail

\* The JSON value that starts at position i (white space already skipped).
ParseValue(s, i) ==
    IF i > Len(s) THEN ParseFail
    ELSE IF s[i] = "[" THEN ParseElements(s, i + 1, <<>>)
    ELSE IF s[i] = "\"" THEN ParseString(s, i + 1, <<>>)
    ELSE IF s[i] \in Digits THEN ParseNumber(s, i)
    ELSE IF s[i] = "n" THEN ParseLiteral(s, i, <<"n", "u", "l", "l">>)
    ELSE IF s[i] = "t" THEN ParseLiteral(s, i, <<"t", "r", "u", "e">>)
    ELSE IF s[i] = "f" THEN ParseLiteral(s, i, <<"f", "a", "l", "s", "e">>)
    ELSE ParseFail

\* JSON.parse(s): ok is FALSE when it throws a SyntaxError; otherwise isArray
\* is Array.isArray of the value and elems the elements of an array.
JsonParse(s) ==
    LET start == SkipSpace(s, 1)
        v == ParseValue(s, start)
    IN  IF v.ok /\ SkipSpace(s, v.next) = Len(s) + 1
        THEN [ok |-> TRUE, isArray |-> s[start] = "[", elems |-> v.elems]
        ELSE [ok |-> FALSE, isArray |-> FALSE, elems |-> <<>>]


(***************************************************************************)
(* The normalization of the rsids argument (query_snp_data)                *)
(***************************************************************************)

\* The rsids argument as the schema admits it: an array of strings, or a
\* string.  val is the array, or the one-element sequence holding the string.
ArrayInput(list) == [tag |-> "array", val |-> list]
StringInput(s) == [tag |-> "string", val |-> <<s>>]

\* The normalization with JSON.parse outside any try block.
NormalizeRsids_NoCatch(input) ==
    LET s == input.val[1]
        parsed == JsonParse(s)
    IN  IF input.tag = "array" THEN [threw |-> FALSE, rsids |-> input.val]
        ELSE IF StartsWith(Trim(s), "[") /\ EndsWith(Trim(s), "]")
             THEN [threw |-> ~parsed.ok,
                   rsids |-> IF parsed.ok /\ parsed.isArray THEN parsed.elems ELSE <<s>>]
        ELSE [threw |-> FALSE, rsids |-> <<s>>]

\* The local rsids that query_snp_data builds from rsidsInput; threw says
\* whether an exception left the normalization.
NormalizeRsids(input) ==
    LET s == input.val[1]
        parsed == JsonParse(s)
    IN  IF input.tag = "array" THEN [threw |-> FALSE, rsids |-> input.val]
        ELSE IF StartsWith(Trim(s), "[") /\ EndsWith(Trim(s), "]")
             THEN [threw |-> FALSE,
                   rsids |-> IF parsed.ok /\ parsed.isArray THEN parsed.elems ELSE <<s>>]
        ELSE [threw |-> FALSE, rsids |-> <<s>>]


(***************************************************************************)
(* The filesystem: the directory join(SAMPLES_DIR, subject_name) and the   *)
(* three files the handlers look for in it                                 *)
(***************************************************************************)

MAX_FILE_SIZE == 100 * 1024 * 1024

FileNames == {"snp.txt", "subject_info.txt", "test_info.txt"}

\* What stat and readFile do with a path: exists says whether a stat of the
\* path succeeds when an existence check makes it, size is the size stat
\* reports, err the failure that meets safeReadFile ("none": there is none)
\* and errAt the call it meets ("stat" or "readFile"), text the content.
AbsentFile == [exists |-> FALSE, size |-> 0, err |-> "ENOENT", errAt |-> "stat", text |-> <<>>]
ReadableFile(t) == [exists |-> TRUE, size |-> Len(t), err |-> "none", errAt |-> "stat", text |-> t]
SizedFile(n, t) == [exists |-> TRUE, size |-> n, err |-> "none", errAt |-> "stat", text |-> t]
FailingFile(e, at) == [exists |-> TRUE, size |-> 0, err |-> e, errAt |-> at, text |-> <<>>]

\* directoryExists(dirPath): stat succeeds and the entry is a directory.
\* dir is "dir", "file" (an entry that is no directory) or "absent".
directoryExists_NoIsDirectory(dir) == dir # "absent"

directoryExists(dir) == dir = "dir"

\* fileExists(filePath): stat succeeds.
fileExists(file) == file.exists

\* safeReadFile(filePath) on a file: how the promise settles and the calls it
\* made.  outcome is "ok" (resolved with content) or the rejection: the file
\* is too large, the timer fired first, ENOENT and EACCES reworded, any other
\* error passed on.
safeReadFile(file) ==
    LET failed(calls) ==
            [outcome |-> CASE file.err = "timeout" -> "timeout"
                           [] file.err = "ENOENT" -> "not_found"
                           [] file.err = "EACCES" -> "permission_denied"
                           [] OTHER -> "other",
             content |-> <<>>, calls |-> calls]
    IN  IF file.err # "none" /\ file.errAt = "stat" THEN failed(<<"stat">>)
        ELSE IF file.size > MAX_FILE_SIZE
             THEN [outcome |-> "too_large", content |-> <<>>, calls |-> <<"stat">>]
        ELSE IF file.err # "none" THEN failed(<<"stat", "readFile">>)
        ELSE [outcome |-> "ok", content |-> file.text, calls |-> <<"stat", "readFile">>]

\* A string that names a path is held as its parts between separators:
\* "alice" is <<"alice">>, "" is <<"">>, "../bob" is <<"..", "bob">>.  A path
\* is the parts below SAMPLES_DIR, with ".." for each step above it.

RECURSIVE NormalizePath(_, _)
\* path.normalize, part by part: "" and "." are dropped, ".." takes back the
\* part before it, and stays when there is none below SAMPLES_DIR to take.
NormalizePath(parts, acc) ==
    IF parts = <<>> THEN acc
    ELSE LET part == Head(parts)
         IN  IF part \in {"", "."} THEN NormalizePath(Tail(parts), acc)
             ELSE IF part = ".." /\ Len(acc) > 1 /\ acc[Len(acc)] # ".."
                  THEN NormalizePath(Tail(parts), SubSeq(acc, 1, Len(acc) - 1))
             ELSE NormalizePath(Tail(parts), Append(acc, part))

\* path.join(base, name): the parts joined and the result normalized.
Join(base, parts) == NormalizePath(Tail(base) \o parts, <<Head(base)>>)

\* join(SAMPLES_DIR, subject_name) and join(subjectDir, name)
SubjectDir(subject_name) == Join(<<"SAMPLES_DIR">>, subject_name)
FilePath(subject_name, name) == Join(SubjectDir(subject_name), <<name>>)

\* One filesystem call, as fsTrace records it.
FsCall(call, path) == [call |-> call, path |-> path]

(***************************************************************************)
(* The Privacy Gate of query_snp_data: the count, then the format          *)
(***************************************************************************)

MAX_RSIDS == 10

\* rsids.filter(rsid => !validateRsid(rsid))
InvalidRsids(list) == SelectSeq(list, LAMBDA e : ~validateRsid(e))

GateResult(outcome, invalid) == [outcome |-> outcome, invalid |-> invalid]

\* The gate rejecting a list of MAX_RSIDS elements.
PrivacyGate_OffByOne(list) ==
    IF Len(list) >= MAX_RSIDS THEN GateResult("too_many", <<>>)
    ELSE IF Len(list) = 0 THEN GateResult("too_few", <<>>)
    ELSE IF \E i \in 1..Len(list) : ValidateThrows(list[i]) THEN GateResult("threw", <<>>)
    ELSE IF Len(InvalidRsids(list)) > 0 THEN GateResult("invalid_format", InvalidRsids(list))
    ELSE GateResult("pass", <<>>)

\* The gate checking the format before the count.
PrivacyGate_FormatFirst(list) ==
    IF \E i \in 1..Len(list) : ValidateThrows(list[i]) THEN GateResult("threw", <<>>)
    ELSE IF Len(InvalidRsids(list)) > 0 THEN GateResult("invalid_format", InvalidRsids(list))
    ELSE IF Len(list) > MAX_RSIDS THEN GateResult("too_many", <<>>)
    ELSE IF Len(list) = 0 THEN GateResult("too_few", <<>>)
    ELSE GateResult("pass", <<>>)

\* The gate without the format check.
PrivacyGate_NoFormat(list) ==
    IF Len(list) > MAX_RSIDS THEN GateResult("too_many", <<>>)
    ELSE IF Len(list) = 0 THEN GateResult("too_few", <<>>)
    ELSE GateResult("pass", <<>>)

\* The checks between the normalization and the first filesystem call:
\* "too_many", "too_few", "invalid_format" (with the failing elements), "threw"
\* (validateRsid met an element that is no string: the filter stops with a
\* TypeError), or "pass".
PrivacyGate(list) ==
    IF Len(list) > MAX_RSIDS THEN GateResult("too_many", <<>>)
    ELSE IF Len(list) = 0 THEN GateResult("too_few", <<>>)
    ELSE IF \E i \in 1..Len(list) : ValidateThrows(list[i]) THEN GateResult("threw", <<>>)
    ELSE IF Len(InvalidRsids(list)) > 0 THEN GateResult("invalid_format", InvalidRsids(list))
    ELSE GateResult("pass", <<>>)

(***************************************************************************)
(* The scan of the marker file (query_snp_data, after the read)            *)
(***************************************************************************)

RECURSIVE Split(_, _)
\* String.prototype.split on a one-character separator.
Split(s, sep) ==
    IF \A i \in 1..Len(s) : s[i] # sep THEN <<s>>
    ELSE LET i == CHOOSE k \in 1..Len(s) :
                      s[k] = sep /\ \A m \in 1..(k - 1) : s[m] # sep
         IN  <<SubSeq(s, 1, i - 1)>> \o Split(SubSeq(s, i + 1, Len(s)), sep)

\* s.replace(/\t/g, ',')
TabsToCommas(s) == [i \in 1..Len(s) |-> IF s[i] = "\t" THEN "," ELSE s[i]]

\* Array.prototype.includes, Set.prototype.has
Includes(list, x) == \E i \in 1..Len(list) : list[i] = x

\* The set kept with the newest element first.
SetAdd_NewestFirst(list, x) == IF Includes(list, x) THEN list ELSE <<x>> \o list

\* Set.prototype.add, the set kept in insertion order.
SetAdd(list, x) == IF Includes(list, x) THEN list ELSE Append(list, x)

\* The header starting as the empty string instead of null.
ScanStart_EmptyHeader == [header |-> <<>>, headerNull |-> FALSE, matchingRows |-> <<>>,
                          foundRsids |-> <<>>]

ScanStart == [header |-> <<>>, headerNull |-> TRUE, matchingRows |-> <<>>,
              foundRsids |-> <<>>]

RECURSIVE ScanLines_OncePerRsid(_, _, _)
\* The loop pushing a row only for an identifier not found before.
ScanLines_OncePerRsid(lines, ids, acc) ==
    IF lines = <<>> THEN acc
    ELSE LET trimmedLine == Trim(Head(lines))
             columns == Split(trimmedLine, "\t")
         IN  IF trimmedLine = <<>> THEN ScanLines_OncePerRsid(Tail(lines), ids, acc)
             ELSE IF acc.headerNull
                  THEN ScanLines_OncePerRsid(Tail(lines), ids,
                           [acc EXCEPT !.header = TabsToCommas(trimmedLine),
                                       !.headerNull = FALSE])
             ELSE IF Len(columns) > 0 /\ Includes(ids, columns[1])
                     /\ ~Includes(acc.foundRsids, columns[1])
                  THEN ScanLines_OncePerRsid(Tail(lines), ids,
                           [acc EXCEPT !.matchingRows = Append(@, JoinTexts(columns, <<",">>)),
                                       !.foundRsids = SetAdd(@, columns[1])])
             ELSE ScanLines_OncePerRsid(Tail(lines), ids, acc)

RECURSIVE ScanLines_HeaderUntrimmed(_, _, _)
\* The loop testing the line itself for emptiness, not the trimmed line.
ScanLines_HeaderUntrimmed(lines, ids, acc) ==
    IF lines = <<>> THEN acc
    ELSE LET trimmedLine == Trim(Head(lines))
             columns == Split(trimmedLine, "\t")
         IN  IF Head(lines) = <<>> THEN ScanLines_HeaderUntrimmed(Tail(lines), ids, acc)
             ELSE IF acc.headerNull
                  THEN ScanLines_HeaderUntrimmed(Tail(lines), ids,
                           [acc EXCEPT !.header = TabsToCommas(trimmedLine),
                                       !.headerNull = FALSE])
             ELSE IF Len(columns) > 0 /\ Includes(ids, columns[1])
                  THEN ScanLines_HeaderUntrimmed(Tail(lines), ids,
                           [acc EXCEPT !.matchingRows = Append(@, JoinTexts(columns, <<",">>)),
                                       !.foundRsids = SetAdd(@, columns[1])])
             ELSE ScanLines_HeaderUntrimmed(Tail(lines), ids, acc)

RECURSIVE ScanLines_FoundUntested(_, _, _)
\* The loop recording the first column of every data row as found.
ScanLines_FoundUntested(lines, ids, acc) ==
    IF lines = <<>> THEN acc
    ELSE LET trimmedLine == Trim(Head(lines))
             columns == Split(trimmedLine, "\t")
         IN  IF trimmedLine = <<>> THEN ScanLines_FoundUntested(Tail(lines), ids, acc)
             ELSE IF acc.headerNull
                  THEN ScanLines_FoundUntested(Tail(lines), ids,
                           [acc EXCEPT !.header = TabsToCommas(trimmedLine),
                                       !.headerNull = FALSE])
             ELSE IF Len(columns) > 0 /\ Includes(ids, columns[1])
                  THEN ScanLines_FoundUntested(Tail(lines), ids,
                           [acc EXCEPT !.matchingRows = Append(@, JoinTexts(columns, <<",">>)),
                                       !.foundRsids = SetAdd(@, columns[1])])
             ELSE ScanLines_FoundUntested(Tail(lines), ids,
                           [acc EXCEPT !.foundRsids = SetAdd(@, columns[1])])

RECURSIVE ScanLines_HeaderMatched(_, _, _)
\* The loop without the continue after the header: the header line is
\* tested like a data row.
ScanLines_HeaderMatched(lines, ids, acc) ==
    IF lines = <<>> THEN acc
    ELSE LET trimmedLine == Trim(Head(lines))
             columns == Split(trimmedLine, "\t")
             withHeader == IF acc.headerNull
                           THEN [acc EXCEPT !.header = TabsToCommas(trimmedLine),
                                            !.headerNull = FALSE]
                           ELSE acc
         IN  IF trimmedLine = <<>> THEN ScanLines_HeaderMatched(Tail(lines), ids, acc)
             ELSE IF Len(columns) > 0 /\ Includes(ids, columns[1])
                  THEN ScanLines_HeaderMatched(Tail(lines), ids,
                           [withHeader EXCEPT
                               !.matchingRows = Append(@, JoinTexts(columns, <<",">>)),
                               !.foundRsids = SetAdd(@, columns[1])])
             ELSE ScanLines_HeaderMatched(Tail(lines), ids, withHeader)

RECURSIVE ScanLines(_, _, _)
\* The for loop over the lines: acc holds header, matchingRows, foundRsids.
ScanLines(lines, ids, acc) ==
    IF lines = <<>> THEN acc
    ELSE LET trimmedLine == Trim(Head(lines))
             columns == Split(trimmedLine, "\t")
         IN  IF trimmedLine = <<>> THEN ScanLines(Tail(lines), ids, acc)
             ELSE IF acc.headerNull
                  THEN ScanLines(Tail(lines), ids,
                           [acc EXCEPT !.header = TabsToCommas(trimmedLine),
                                       !.headerNull = FALSE])
             ELSE IF Len(columns) > 0 /\ Includes(ids, columns[1])
                  THEN ScanLines(Tail(lines), ids,
                           [acc EXCEPT !.matchingRows = Append(@, JoinTexts(columns, <<",">>)),
                                       !.foundRsids = SetAdd(@, columns[1])])
             ELSE ScanLines(Tail(lines), ids, acc)

\* Set.prototype.add on the identifiers in the order of the query.
Dedupe(list) ==
    SelectSeq([i \in 1..Len(list) |-> IF \E k \in 1..(i - 1) : list[k] = list[i]
                                      THEN <<"dup">> ELSE <<"id", list[i]>>],
              LAMBDA e : e[1] = "id")

\* not_found_rsids as the difference of two sets: each identifier once.
ScanResult_NotFoundDistinct(subject_name, text, ids) ==
    LET acc == ScanLines(Split(text, "\n"), ids, ScanStart)
        distinct == Dedupe(SelectSeq(ids, LAMBDA r : ~Includes(acc.foundRsids, r)))
    IN  [subject |-> subject_name,
         header |-> acc.header,
         headerNull |-> acc.headerNull,
         matching_rows |-> acc.matchingRows,
         queried_rsids |-> ids,
         found_count |-> Len(acc.matchingRows),
         found_rsids |-> acc.foundRsids,
         not_found_rsids |-> [i \in 1..Len(distinct) |-> distinct[i][2]]]

\* found_count as the number of identifiers found.
ScanResult_CountsIdentifiers(subject_name, text, ids) ==
    LET acc == ScanLines(Split(text, "\n"), ids, ScanStart)
    IN  [subject |-> subject_name,
         header |-> acc.header,
         headerNull |-> acc.headerNull,
         matching_rows |-> acc.matchingRows,
         queried_rsids |-> ids,
         found_count |-> Len(acc.foundRsids),
         found_rsids |-> acc.foundRsids,
         not_found_rsids |-> SelectSeq(ids, LAMBDA r : ~Includes(acc.foundRsids, r))]

\* The seven result fields built from the file text and the local rsids.
ScanResult(subject_name, text, ids) ==
    LET acc == ScanLines(Split(text, "\n"), ids, ScanStart)
    IN  [subject |-> subject_name,
         header |-> acc.header,
         headerNull |-> acc.headerNull,
         matching_rows |-> acc.matchingRows,
         queried_rsids |-> ids,
         found_count |-> Len(acc.matchingRows),
         found_rsids |-> acc.foundRsids,
         not_found_rsids |-> SelectSeq(ids, LAMBDA r : ~Includes(acc.foundRsids, r))]

(***************************************************************************)
(* list_subjects: the pattern and the order of the result                  *)
(***************************************************************************)

\* new RegExp(pattern) throws a SyntaxError.  The patterns of the model hold
\* no ")" and no "]", so a "(" or a "[" is never closed; a "*" needs an atom
\* to repeat, and an assertion or another "*" is none.
RegExpThrows(p) ==
    \E i \in 1..Len(p) :
        \/ p[i] \in {"(", "["}
        \/ p[i] = "*" /\ (i = 1 \/ p[i - 1] \in {"*", "^", "$"})

RECURSIVE MatchAt(_, _, _, _)
\* The pattern from its i-th character on matches s from its j-th character
\* on.  "^" and "$" assert the start and the end of the input (no flags), "."
\* is any character but a line terminator, "x*" is x any number of times.
MatchAt(p, i, s, j) ==
    IF i > Len(p) THEN TRUE
    ELSE IF p[i] = "^" THEN j = 1 /\ MatchAt(p, i + 1, s, j)
    ELSE IF p[i] = "$" THEN j = Len(s) + 1 /\ MatchAt(p, i + 1, s, j)
    ELSE LET one(k) == IF p[i] = "." THEN s[k] # "\n" ELSE s[k] = p[i]
         IN  IF i < Len(p) /\ p[i + 1] = "*"
             THEN \E n \in 0..(Len(s) + 1 - j) :
                      /\ \A k \in j..(j + n - 1) : one(k)
                      /\ MatchAt(p, i + 2, s, j + n)
             ELSE j <= Len(s) /\ one(j) /\ MatchAt(p, i + 1, s, j + 1)

\* regex.test(subject): the pattern matches somewhere in the subject.
RegExpTest(p, s) == \E j \in 1..(Len(s) + 1) : MatchAt(p, 1, s, j)

\* The UTF-16 code unit of the characters that occur in the names.
CodeUnit(c) ==
    CASE c = "." -> 46 [] c = "1" -> 49 [] c = "B" -> 66 [] c = "a" -> 97
      [] c = "b" -> 98 [] c = "c" -> 99 [] c = "e" -> 101 [] c = "i" -> 105
      [] c = "l" -> 108

RECURSIVE LessThan(_, _)
\* a < b on strings: by code unit at the first difference, a prefix first.
LessThan(a, b) ==
    IF b = <<>> THEN FALSE
    ELSE IF a = <<>> THEN TRUE
    ELSE IF Head(a) = Head(b) THEN LessThan(Tail(a), Tail(b))
    ELSE CodeUnit(Head(a)) < CodeUnit(Head(b))

\* The result left in the order of readdir.
Sort_Unsorted(list) == list

RECURSIVE Sort(_)
\* Array.prototype.sort() without a compare function
Sort(list) ==
    IF list = <<>> THEN <<>>
    ELSE LET rest == Sort(Tail(list))
             x == Head(list)
         IN  SelectSeq(rest, LAMBDA y : LessThan(y, x)) \o <<x>>
             \o SelectSeq(rest, LAMBDA y : ~LessThan(y, x))

\* The pattern argument: absent, or a string.
NoPattern == [given |-> FALSE, text |-> <<>>]
Pattern(t) == [given |-> TRUE, text |-> t]

(***************************************************************************)
(* The responses of the CallToolRequestSchema handler.  kind names the     *)
(* return statement, fields the keys of the JSON payload, isError the      *)
(* top-level failure marker; the other fields hold what the text embeds.   *)
(***************************************************************************)

NoResult == [subject |-> <<"">>, header |-> <<>>, headerNull |-> TRUE,
             matching_rows |-> <<>>, queried_rsids |-> <<>>, found_count |-> 0,
             found_rsids |-> <<>>, not_found_rsids |-> <<>>]

NoResponse == [kind |-> "none", isError |-> FALSE, fields |-> {}, subject |-> <<"">>,
               count |-> 0, detail |-> <<>>, cause |-> "none",
               infoNull |-> FALSE, info |-> <<>>, result |-> NoResult,
               list |-> <<>>]

ResultFields == {"subject", "header", "matching_rows", "queried_rsids",
                 "found_count", "found_rsids", "not_found_rsids"}

\* { error: ... } of a count or format rejection
TooMany(n) == [NoResponse EXCEPT !.kind = "too_many", !.fields = {"error"}, !.count = n]
TooFew == [NoResponse EXCEPT !.kind = "too_few", !.fields = {"error"}]
InvalidFormat(invalid) ==
    [NoResponse EXCEPT !.kind = "invalid_format", !.fields = {"error"},
                       !.detail = Stringify(invalid)]

\* { error: `Subject '${subject_name}' not found. ...` }
SubjectNotFound(subject_name) ==
    [NoResponse EXCEPT !.kind = "subject_not_found", !.fields = {"error"},
                       !.subject = subject_name]

\* { error: `No snp.txt file found for subject '${subject_name}'. ...` }
NoDataFile(subject_name) ==
    [NoResponse EXCEPT !.kind = "no_data_file", !.fields = {"error"},
                       !.subject = subject_name]

\* The catch block of an operation: { error: `Error ...: ${e}. ...` }
CaughtError(subject_name, e) ==
    [NoResponse EXCEPT !.kind = "caught_error", !.fields = {"error"},
                       !.subject = subject_name, !.cause = e]

\* { subject, info: null, message }
NotPresent(subject_name) ==
    [NoResponse EXCEPT !.kind = "not_present", !.fields = {"subject", "info", "message"},
                       !.subject = subject_name, !.infoNull = TRUE]

\* { subject, info: content.trim() }
Info(subject_name, text) ==
    [NoResponse EXCEPT !.kind = "info", !.fields = {"subject", "info"},
                       !.subject = subject_name, !.info = text]

\* The seven-field payload of a query.
Result(r) ==
    [NoResponse EXCEPT !.kind = "result", !.fields = ResultFields,
                       !.subject = r.subject, !.result = r]

\* list_subjects: the JSON array of the names
SubjectList(list) == [NoResponse EXCEPT !.kind = "subjects", !.list = list]

\* list_subjects: [`Error: Invalid regex pattern '${pattern}': ${e}. ...`], an
\* array of one string that embeds the pattern
PatternError(pattern) ==
    [NoResponse EXCEPT !.kind = "pattern_error", !.cause = "SyntaxError",
                       !.detail = pattern,
                       !.list = << <<"Error: Invalid regex pattern ">> \o pattern >>]

\* list_subjects: [`Error accessing DNA profiles directory: ${e}. ...`]
ListError(e) ==
    [NoResponse EXCEPT !.kind = "list_error", !.cause = e,
                       !.list = << <<"Error accessing DNA profiles directory">> >>]

\* A pattern that does not compile treated as one that matches nothing.
ListReturn_NoMatchOnBadPattern(subs, pattern) ==
    IF pattern.given /\ pattern.text # <<>>
    THEN IF RegExpThrows(pattern.text) THEN SubjectList(<<>>)
         ELSE SubjectList(Sort(SelectSeq(subs, LAMBDA n : RegExpTest(pattern.text, n))))
    ELSE SubjectList(Sort(subs))

\* What list_subjects returns once subjects is complete: the error of a
\* pattern that does not compile, or the names (those the pattern matches,
\* when a non-empty pattern is given), sorted.
ListReturn(subs, pattern) ==
    IF pattern.given /\ pattern.text # <<>>
    THEN IF RegExpThrows(pattern.text) THEN PatternError(pattern.text)
         ELSE SubjectList(Sort(SelectSeq(subs, LAMBDA n : RegExpTest(pattern.text, n))))
    ELSE SubjectList(Sort(subs))

\* The outer catch block: `Error: ${error}` with isError: true.
TopLevelError(e) ==
    [NoResponse EXCEPT !.kind = "top_level_error", !.isError = TRUE, !.cause = e]

(***************************************************************************)
(* Spec: the CallToolRequestSchema handler, one request at a time.  An     *)
(* action is the code between two awaits; the store does not change.       *)
(***************************************************************************)

\* The longest list drawn element by element from the pool.
MaxShort == 2

RS1 == <<"r", "s", "1">>
RS2 == <<"r", "s", "2">>
PaddedRS2 == <<" ", "r", "s", "2">>
UpperRS1 == <<"R", "S", "1">>
NoDigits == <<"r", "s">>
Number1 == <<NonString, "1">>

\* The elements of the rsids arrays: two identifiers (one padded with white
\* space) and two strings outside the grammar.
IdPool == {RS1, PaddedRS2, UpperRS1, NoDigits}

\* The lists of at most MaxShort elements of pool, and each of them filled
\* with copies of one filler up to the cap and to one element over it.
ListsOver(pool, fillers) ==
    SeqsUpTo(pool, MaxShort)
    \cup {s \o Rep(f, n - Len(s)) : s \in SeqsUpTo(pool, MaxShort), f \in fillers,
                                   n \in {MAX_RSIDS, MAX_RSIDS + 1}}

\* The lists an array argument holds: strings only (the schema).
ArrayLists == ListsOver(IdPool, {RS1, UpperRS1})

\* The lists a serialized array holds: its elements need not be strings.
ParsedLists == ListsOver(IdPool \cup {Number1}, {RS1, Number1})

\* The rsids arguments of query_snp_data.
RsidsInputs ==
    {ArrayInput(l) : l \in ArrayLists}
    \cup {StringInput(e) : e \in IdPool}
    \cup {StringInput(Stringify(l)) : l \in ParsedLists}
    \cup {StringInput(<<"[", "r", "s", "1", "]">>)}

SubjectNames == {<<"alice">>}

InfoTools == {"get_test_info", "get_subject_info"}

NoRequest == [name |-> "none", subject_name |-> <<"">>, rsids |-> ArrayInput(<<>>),
              pattern |-> NoPattern]

\* The pattern arguments of list_subjects in Spec: none, the empty string, a
\* pattern that matches some names, one that matches none, two that do not
\* compile.
ListPatterns ==
    {NoPattern, Pattern(<<>>), Pattern(<<"b">>), Pattern(<<"1">>), Pattern(<<"(">>),
     Pattern(<<"b", "*", "*">>)}

\* request.params: the tool name and its arguments.
Requests ==
    {[name |-> n, subject_name |-> s, rsids |-> ArrayInput(<<>>), pattern |-> NoPattern] :
        n \in InfoTools \cup {"export_genome"}, s \in SubjectNames}
    \cup {[name |-> "query_snp_data", subject_name |-> s, rsids |-> r,
           pattern |-> NoPattern] :
        s \in SubjectNames, r \in RsidsInputs}
    \cup {[name |-> "list_subjects", subject_name |-> <<"">>, rsids |-> ArrayInput(<<>>),
           pattern |-> q] : q \in ListPatterns}

\* A line of columns, a text of lines.
Line(columns) == JoinTexts(columns, <<"\t">>)
Text(lines) == JoinTexts(lines, <<"\n">>)

HeaderLine == Line(<< <<"i", "d">>, <<"g">> >>)

\* The marker files: a header and two rows; nothing; blank lines around a
\* header and a row that occurs twice; white space only.
SnpTexts ==
    {Text(<<HeaderLine, Line(<<RS1, <<"A">> >>), Line(<<RS2, <<"C">> >>), <<>> >>),
     <<>>,
     Text(<< <<>>, HeaderLine, Line(<<RS1, <<"A">> >>), <<" ">>, Line(<<RS1, <<"G">> >>)>>),
     <<" ", "\n">>}

\* The info files: padded with white space, with white space inside, empty.
InfoTexts == {<<" ", "h", "i", "\n">>, <<"a", " ", "b">>, <<>>}

\* How a read of an existing path can fail, and at which call.
FileFailures ==
    {<<"ENOENT", "stat">>, <<"EACCES", "readFile">>, <<"EISDIR", "readFile">>,
     <<"timeout", "stat">>, <<"timeout", "readFile">>}

FileStates(texts) ==
    {AbsentFile}
    \cup {ReadableFile(x) : x \in texts}
    \cup {SizedFile(n, <<"i", "d">>) : n \in {MAX_FILE_SIZE, MAX_FILE_SIZE + 1}}
    \cup {FailingFile(f[1], f[2]) : f \in FileFailures}

StatesOf(name) == IF name = "snp.txt" THEN FileStates(SnpTexts) ELSE FileStates(InfoTexts)

\* A subject directory holding the three files, each with its own text.
BaseFiles ==
    [n \in FileNames |->
        CASE n = "snp.txt" -> ReadableFile(Text(<<HeaderLine, Line(<<RS2, <<"T">> >>)>>))
          [] n = "subject_info.txt" -> ReadableFile(<<"s">>)
          [] n = "test_info.txt" -> ReadableFile(<<"t">>)]

\* The name of the subject "alice" as readdir returns it.
SubjectEntry == <<"a", "l", "i", "c", "e">>

\* An entry of SAMPLES_DIR: its name and what a stat of it finds.
Entry(name, kind) == [name |-> name, kind |-> kind]

\* SAMPLES_DIR: root is what a stat of it finds ("dir", "file", "absent"),
\* listing how readdir ends ("ok" or the error code), entries its entries in
\* the order of readdir; dir and files are the entry of the subject the
\* requests name and the three files under it.
Store(root, listing, entries, dir, files) ==
    [root |-> root, listing |-> listing, entries |-> entries, dir |-> dir, files |-> files]

NoFiles == [n \in FileNames |-> AbsentFile]

\* SAMPLES_DIR holding the subject only.
SubjectStore(dir, files) ==
    Store("dir", "ok", IF dir = "absent" THEN <<>> ELSE <<Entry(SubjectEntry, dir)>>,
          dir, files)

\* Other entries of SAMPLES_DIR: two directories and a file.
OtherEntries ==
    <<Entry(<<"b", "a">>, "dir"), Entry(<<"a", "b">>, "file"), Entry(<<"B">>, "dir")>>

\* The stores: a directory in which one file differs from BaseFiles; a
\* missing directory (or an entry that is no directory) with and without
\* paths that answer to stat under it; SAMPLES_DIR missing, no directory,
\* not readable, and holding other entries around the subject.
Stores ==
    UNION {{SubjectStore("dir", [BaseFiles EXCEPT ![n] = st]) :
               st \in StatesOf(n)} : n \in FileNames}
    \cup {SubjectStore(d, fs) : d \in {"absent", "file"}, fs \in {BaseFiles, NoFiles}}
    \cup {Store(r, "ok", <<>>, "absent", NoFiles) : r \in {"absent", "file"}}
    \cup {Store("dir", "EACCES", <<>>, "absent", NoFiles),
          Store("dir", "ok", OtherEntries, "absent", NoFiles),
          Store("dir", "ok",
                <<OtherEntries[1], Entry(SubjectEntry, "dir")>> \o Tail(OtherEntries),
                "dir", BaseFiles)}

\* The variables a specification does not use keep these values.
ValidateUnused == rsid = <<>> /\ verdict = FALSE
NormalizeUnused == rsidsInput = ArrayInput(<<>>) /\ normalized = NormalizeRsids(ArrayInput(<<>>))
HandlerUnused ==
    /\ store = Store("absent", "ok", <<>>, "absent", NoFiles)
    /\ pc = "unused"
    /\ request = NoRequest
    /\ rsids = <<>>
    /\ fileContent = <<>>
    /\ response = NoResponse
    /\ fsTrace = <<>>
    /\ items = <<>>
    /\ subjects = <<>>
ReadUnused ==
    /\ readPc = "unused"
    /\ timer = "unused"
    /\ promise = [state |-> "pending", outcome |-> "none", content |-> <<>>,
                  file |-> "none"]
ConcurrentUnused == inflight = <<>>

Init ==
    /\ store \in Stores
    /\ pc = "idle"
    /\ request = NoRequest
    /\ rsids = <<>>
    /\ fileContent = <<>>
    /\ response = NoResponse
    /\ fsTrace = <<>>
    /\ items = <<>>
    /\ subjects = <<>>
    /\ stage = "unused"
    /\ ValidateUnused
    /\ NormalizeUnused
    /\ ReadUnused
    /\ ConcurrentUnused

\* The variables the handler of one request does not touch.
otherVars == <<stage, rsid, verdict, rsidsInput, normalized, readVars, concurrentVars>>

\* The handler is called with a request.
Receive ==
    /\ pc = "idle"
    /\ request' \in Requests
    /\ pc' = "start"
    /\ UNCHANGED <<store, rsids, fileContent, response, fsTrace, items, subjects, otherVars>>

\* return: the handler resolves with r.
Return(r) == response' = r /\ pc' = "done"

\* The response is sent; nothing of the request is kept.
Respond ==
    /\ pc = "done"
    /\ pc' = "idle"
    /\ request' = NoRequest
    /\ rsids' = <<>>
    /\ fileContent' = <<>>
    /\ response' = NoResponse
    /\ fsTrace' = <<>>
    /\ items' = <<>>
    /\ subjects' = <<>>
    /\ UNCHANGED <<store, otherVars>>

\* The default case without the outer catch: the handler rejects.
UnknownTool_Escapes ==
    /\ pc = "start"
    /\ request.name \notin InfoTools \cup {"query_snp_data", "list_subjects"}
    /\ pc' = "threw"
    /\ UNCHANGED <<store, request, rsids, fileContent, response, fsTrace, items,
                   subjects, otherVars>>

\* default: throw new Error(`Unknown tool: ${name}`), caught by the outer catch.
UnknownTool ==
    /\ pc = "start"
    /\ request.name \notin InfoTools \cup {"query_snp_data", "list_subjects"}
    /\ Return(TopLevelError("Unknown tool"))
    /\ UNCHANGED <<store, request, rsids, fileContent, fsTrace, items, subjects, otherVars>>

\* join(SAMPLES_DIR, item)
ItemPath(item) == <<"SAMPLES_DIR">> \o item

\* What a stat of join(SAMPLES_DIR, item) finds.
ItemKind(item) ==
    LET found == SelectSeq(store.entries, LAMBDA e : e.name = item)
    IN  IF found = <<>> THEN "absent" ELSE found[1].kind

\* list_subjects: if (!(await directoryExists(SAMPLES_DIR))) return []
ListCheckRoot ==
    /\ pc = "start"
    /\ request.name = "list_subjects"
    /\ fsTrace' = Append(fsTrace, FsCall("stat", <<"SAMPLES_DIR">>))
    /\ IF directoryExists(store.root)
       THEN pc' = "l_readdir" /\ UNCHANGED response
       ELSE Return(SubjectList(<<>>))
    /\ UNCHANGED <<store, request, rsids, fileContent, items, subjects, otherVars>>

\* const items = await readdir(SAMPLES_DIR): the catch block when it fails,
\* the return when there is no item to look at.
ListReaddir ==
    LET names == [i \in 1..Len(store.entries) |-> store.entries[i].name]
    IN  /\ pc = "l_readdir"
        /\ fsTrace' = Append(fsTrace, FsCall("readdir", <<"SAMPLES_DIR">>))
        /\ IF store.listing # "ok"
           THEN Return(ListError(store.listing)) /\ UNCHANGED items
           ELSE IF names = <<>>
                THEN Return(ListReturn(<<>>, request.pattern)) /\ UNCHANGED items
           ELSE pc' = "l_item" /\ items' = names /\ UNCHANGED response
        /\ UNCHANGED <<store, request, rsids, fileContent, subjects, otherVars>>

\* if (await directoryExists(itemPath)) subjects.push(item), and after the
\* last item the filter, the sort and the return.
ListCheckItem ==
    LET item == Head(items)
        subs == IF directoryExists(ItemKind(item)) THEN Append(subjects, item)
                ELSE subjects
    IN  /\ pc = "l_item"
        /\ fsTrace' = Append(fsTrace, FsCall("stat", ItemPath(item)))
        /\ items' = Tail(items)
        /\ subjects' = subs
        /\ IF Tail(items) = <<>>
           THEN Return(ListReturn(subs, request.pattern))
           ELSE UNCHANGED <<pc, response>>
        /\ UNCHANGED <<store, request, rsids, fileContent, otherVars>>

InfoFile == IF request.name = "get_test_info" THEN "test_info.txt" ELSE "subject_info.txt"

\* get_test_info, get_subject_info: if (!(await directoryExists(subjectDir)))
InfoCheckDir ==
    /\ pc = "start"
    /\ request.name \in InfoTools
    /\ fsTrace' = Append(fsTrace, FsCall("stat", SubjectDir(request.subject_name)))
    /\ IF directoryExists(store.dir)
       THEN pc' = "i_file" /\ UNCHANGED response
       ELSE Return(SubjectNotFound(request.subject_name))
    /\ UNCHANGED <<store, request, rsids, fileContent, items, subjects, otherVars>>

\* if (!(await fileExists(infoFile)))
InfoCheckFile ==
    /\ pc = "i_file"
    /\ fsTrace' = Append(fsTrace, FsCall("stat", FilePath(request.subject_name, InfoFile)))
    /\ IF fileExists(store.files[InfoFile])
       THEN pc' = "i_read" /\ UNCHANGED response
       ELSE Return(NotPresent(request.subject_name))
    /\ UNCHANGED <<store, request, rsids, fileContent, items, subjects, otherVars>>

\* The calls of a safeReadFile, as fsTrace records them.
ReadCalls(read, path) == [i \in 1..Len(read.calls) |-> FsCall(read.calls[i], path)]

\* const content = await safeReadFile(infoFile), returned untrimmed.
InfoRead_NoTrim ==
    LET read == safeReadFile(store.files[InfoFile])
    IN  /\ pc = "i_read"
        /\ fsTrace' = fsTrace \o ReadCalls(read, FilePath(request.subject_name, InfoFile))
        /\ IF read.outcome = "ok"
           THEN /\ fileContent' = read.content
                /\ Return(Info(request.subject_name, read.content))
           ELSE /\ UNCHANGED fileContent
                /\ Return(CaughtError(request.subject_name, read.outcome))
        /\ UNCHANGED <<store, request, rsids, items, subjects, otherVars>>

\* const content = await safeReadFile(infoFile); return content.trim(), or
\* the catch block.
InfoRead ==
    LET read == safeReadFile(store.files[InfoFile])
    IN  /\ pc = "i_read"
        /\ fsTrace' = fsTrace \o ReadCalls(read, FilePath(request.subject_name, InfoFile))
        /\ IF read.outcome = "ok"
           THEN /\ fileContent' = read.content
                /\ Return(Info(request.subject_name, Trim(read.content)))
           ELSE /\ UNCHANGED fileContent
                /\ Return(CaughtError(request.subject_name, read.outcome))
        /\ UNCHANGED <<store, request, rsids, items, subjects, otherVars>>

\* The response of a query whose list the gate does not pass.
GateResponse(gate, list, subject_name) ==
    CASE gate.outcome = "too_many" -> TooMany(Len(list))
      [] gate.outcome = "too_few" -> TooFew
      [] gate.outcome = "invalid_format" -> InvalidFormat(gate.invalid)
      [] OTHER -> CaughtError(subject_name, "TypeError")

\* query_snp_data with the subject directory checked before the gate.
QueryGate_StatFirst ==
    LET norm == NormalizeRsids(request.rsids)
        gate == PrivacyGate(norm.rsids)
    IN  /\ pc = "start"
        /\ request.name = "query_snp_data"
        /\ rsids' = norm.rsids
        /\ fsTrace' = Append(fsTrace, FsCall("stat", SubjectDir(request.subject_name)))
        /\ IF norm.threw THEN Return(CaughtError(request.subject_name, "SyntaxError"))
           ELSE IF gate.outcome # "pass"
                THEN Return(GateResponse(gate, norm.rsids, request.subject_name))
           ELSE IF directoryExists(store.dir) THEN pc' = "q_file" /\ UNCHANGED response
           ELSE Return(SubjectNotFound(request.subject_name))
        /\ UNCHANGED <<store, request, fileContent, items, subjects, otherVars>>

\* query_snp_data up to its first await: the normalization and the gate.
QueryGate ==
    LET norm == NormalizeRsids(request.rsids)
        gate == PrivacyGate(norm.rsids)
    IN  /\ pc = "start"
        /\ request.name = "query_snp_data"
        /\ rsids' = norm.rsids
        /\ IF norm.threw THEN Return(CaughtError(request.subject_name, "SyntaxError"))
           ELSE IF gate.outcome # "pass"
                THEN Return(GateResponse(gate, norm.rsids, request.subject_name))
           ELSE pc' = "q_dir" /\ UNCHANGED response
        /\ UNCHANGED <<store, request, fileContent, fsTrace, items, subjects, otherVars>>

\* The directory check without its return.
QueryCheckDir_NoReturn ==
    /\ pc = "q_dir"
    /\ fsTrace' = Append(fsTrace, FsCall("stat", SubjectDir(request.subject_name)))
    /\ pc' = "q_file"
    /\ UNCHANGED <<store, request, rsids, fileContent, response, items, subjects, otherVars>>

\* if (!(await directoryExists(subjectDir)))
QueryCheckDir ==
    /\ pc = "q_dir"
    /\ fsTrace' = Append(fsTrace, FsCall("stat", SubjectDir(request.subject_name)))
    /\ IF directoryExists(store.dir)
       THEN pc' = "q_file" /\ UNCHANGED response
       ELSE Return(SubjectNotFound(request.subject_name))
    /\ UNCHANGED <<store, request, rsids, fileContent, items, subjects, otherVars>>

\* if (!(await fileExists(snpFile)))
QueryCheckFile ==
    /\ pc = "q_file"
    /\ fsTrace' = Append(fsTrace, FsCall("stat", FilePath(request.subject_name, "snp.txt")))
    /\ IF fileExists(store.files["snp.txt"])
       THEN pc' = "q_read" /\ UNCHANGED response
       ELSE Return(NoDataFile(request.subject_name))
    /\ UNCHANGED <<store, request, rsids, fileContent, items, subjects, otherVars>>

\* The read without the catch block of the operation: a rejection reaches
\* the outer catch.
QueryRead_OuterCatch ==
    LET read == safeReadFile(store.files["snp.txt"])
    IN  /\ pc = "q_read"
        /\ fsTrace' = fsTrace \o ReadCalls(read, FilePath(request.subject_name, "snp.txt"))
        /\ IF read.outcome = "ok"
           THEN fileContent' = read.content /\ pc' = "q_scan" /\ UNCHANGED response
           ELSE UNCHANGED fileContent /\ Return(TopLevelError(read.outcome))
        /\ UNCHANGED <<store, request, rsids, items, subjects, otherVars>>

\* const fileContent = await safeReadFile(snpFile), or the catch block.
QueryRead ==
    LET read == safeReadFile(store.files["snp.txt"])
    IN  /\ pc = "q_read"
        /\ fsTrace' = fsTrace \o ReadCalls(read, FilePath(request.subject_name, "snp.txt"))
        /\ IF read.outcome = "ok"
           THEN fileContent' = read.content /\ pc' = "q_scan" /\ UNCHANGED response
           ELSE UNCHANGED fileContent /\ Return(CaughtError(request.subject_name, read.outcome))
        /\ UNCHANGED <<store, request, rsids, items, subjects, otherVars>>

\* The scan of fileContent and the seven-field result.
QueryScan ==
    /\ pc = "q_scan"
    /\ Return(Result(ScanResult(request.subject_name, fileContent, rsids)))
    /\ UNCHANGED <<store, request, rsids, fileContent, fsTrace, items, subjects, otherVars>>

Next ==
    \/ Receive
    \/ Respond
    \/ UnknownTool
    \/ ListCheckRoot
    \/ ListReaddir
    \/ ListCheckItem
    \/ InfoCheckDir
    \/ InfoCheckFile
    \/ InfoRead
    \/ QueryGate
    \/ QueryCheckDir
    \/ QueryCheckFile
    \/ QueryRead
    \/ QueryScan

Spec == Init /\ [][Next]_vars

(***************************************************************************)
(* SpecList: list_subjects on every listing of SAMPLES_DIR and every       *)
(* pattern, with the actions of Spec                                       *)
(***************************************************************************)

\* The most entries SAMPLES_DIR holds.
MaxEntries == 3

\* The longest pattern drawn character by character.
MaxPatternLen == 2

PatternAlphabet == {"a", "b", ".", "*", "^", "$", "("}

\* The patterns: none, every string over the alphabet, and three longer ones.
AllPatterns ==
    {NoPattern}
    \cup {Pattern(t) : t \in SeqsUpTo(PatternAlphabet, MaxPatternLen)}
    \cup {Pattern(<<"[">>), Pattern(<<"^", "a", ".", "*", "e", "$">>),
          Pattern(<<"b", ".", "*", "$">>)}

\* The entries SAMPLES_DIR can hold: three directories and a file.
EntryPool ==
    {Entry(SubjectEntry, "dir"), Entry(<<"B">>, "dir"), Entry(<<"b", "a">>, "dir"),
     Entry(<<"a", "b">>, "file")}

\* The listings: at most MaxEntries entries of different names, in any order.
Listings ==
    {l \in SeqsUpTo(EntryPool, MaxEntries) :
        \A i, j \in 1..Len(l) : i # j => l[i] # l[j]}

ListStores ==
    {Store(r, "ok", <<>>, "absent", NoFiles) : r \in {"absent", "file"}}
    \cup {Store("dir", "EACCES", <<>>, "absent", NoFiles)}
    \cup {Store("dir", "ok", l,
                IF Includes(l, Entry(SubjectEntry, "dir")) THEN "dir" ELSE "absent",
                IF Includes(l, Entry(SubjectEntry, "dir")) THEN BaseFiles ELSE NoFiles) :
             l \in Listings}

\* The handler has been called with a list_subjects request.
InitList ==
    /\ store \in ListStores
    /\ pc = "start"
    /\ request \in {[name |-> "list_subjects", subject_name |-> <<"">>,
                     rsids |-> ArrayInput(<<>>), pattern |-> q] : q \in AllPatterns}
    /\ rsids = <<>>
    /\ fileContent = <<>>
    /\ response = NoResponse
    /\ fsTrace = <<>>
    /\ items = <<>>
    /\ subjects = <<>>
    /\ stage = "unused"
    /\ ValidateUnused
    /\ NormalizeUnused
    /\ ReadUnused
    /\ ConcurrentUnused

NextList == ListCheckRoot \/ ListReaddir \/ ListCheckItem \/ Respond

SpecList == InitList /\ [][NextList]_vars

(***************************************************************************)
(* SpecRead: safeReadFile step by step.  The executor arms the timer and   *)
(* awaits stat, then readFile; the timer can fire while either is pending. *)
(* The handler that awaits the promise goes on once it is settled.  The    *)
(* store does not say here when a call is slow: the order of the steps     *)
(* does.                                                                   *)
(***************************************************************************)

\* A promise settles once: resolve and reject on a settled promise do nothing.
Pending(file) == [state |-> "pending", outcome |-> "none", content |-> <<>>, file |-> file]
\* resolve settling a promise that is settled already.
Resolve_Overwrites(p, content) ==
    [p EXCEPT !.state = "resolved", !.outcome = "ok", !.content = content]

Resolve(p, content) ==
    IF p.state = "pending" THEN [p EXCEPT !.state = "resolved", !.outcome = "ok",
                                          !.content = content]
    ELSE p
Reject(p, outcome) ==
    IF p.state = "pending" THEN [p EXCEPT !.state = "rejected", !.outcome = outcome]
    ELSE p

\* clearTimeout(timeout)
ClearTimeout(t) == IF t = "armed" THEN "cleared" ELSE t

\* The rejection of the catch block: ENOENT and EACCES reworded, any other
\* error passed on.
CatchOutcome(e) ==
    CASE e = "ENOENT" -> "not_found"
      [] e = "EACCES" -> "permission_denied"
      [] OTHER -> "other"

\* The file the handler at pc reads.
FileRead == IF pc = "q_read" THEN "snp.txt" ELSE InfoFile

\* The files a read can meet: the file exists when the handler checks, and
\* no state of the store stands for a timeout.
ReadFiles(texts) == {f \in FileStates(texts) : f.exists /\ f.err # "timeout"}
    \cup {FailingFile("EACCES", "stat")}

ReadStores ==
    UNION {{SubjectStore("dir", [BaseFiles EXCEPT ![n] = st]) :
               st \in ReadFiles(IF n = "snp.txt" THEN SnpTexts ELSE InfoTexts)} :
           n \in FileNames}

\* The handler stands at its await of safeReadFile, the existence checks made.
InitRead ==
    /\ store \in ReadStores
    /\ \/ /\ pc = "q_read"
          /\ \E l \in {<<RS1>>, <<RS2, PaddedRS2, RS1>>} :
                /\ request = [name |-> "query_snp_data", subject_name |-> <<"alice">>,
                              rsids |-> ArrayInput(l), pattern |-> NoPattern]
                /\ rsids = l
          /\ fsTrace = <<FsCall("stat", SubjectDir(<<"alice">>)),
                         FsCall("stat", FilePath(<<"alice">>, "snp.txt"))>>
       \/ /\ pc = "i_read"
          /\ \E n \in InfoTools :
                request = [name |-> n, subject_name |-> <<"alice">>,
                           rsids |-> ArrayInput(<<>>), pattern |-> NoPattern]
          /\ rsids = <<>>
          /\ fsTrace = <<FsCall("stat", SubjectDir(<<"alice">>)),
                         FsCall("stat", FilePath(<<"alice">>, InfoFile))>>
    /\ fileContent = <<>>
    /\ response = NoResponse
    /\ items = <<>>
    /\ subjects = <<>>
    /\ readPc = "idle"
    /\ timer = "unset"
    /\ promise = Pending("none")
    /\ stage = "unused"
    /\ ValidateUnused
    /\ NormalizeUnused
    /\ ConcurrentUnused

readUnchanged == <<store, request, rsids, fileContent, response, pc, items, subjects,
                   stage, rsid, verdict, rsidsInput, normalized, concurrentVars>>

\* safeReadFile(filePath): the executor runs up to its first await, with the
\* timer set and stat called.
ReadCall ==
    /\ pc \in {"q_read", "i_read"}
    /\ readPc = "idle"
    /\ promise' = Pending(FileRead)
    /\ timer' = "armed"
    /\ readPc' = "stat"
    /\ fsTrace' = Append(fsTrace, FsCall("stat", FilePath(<<"alice">>, FileRead)))
    /\ UNCHANGED readUnchanged

\* The size check rejecting a file of exactly the cap.
StatSettles_CapExclusive ==
    LET file == store.files[promise.file]
    IN  /\ readPc = "stat"
        /\ IF file.err # "none" /\ file.errAt = "stat"
           THEN /\ timer' = ClearTimeout(timer)
                /\ promise' = Reject(promise, CatchOutcome(file.err))
                /\ readPc' = "end"
                /\ UNCHANGED fsTrace
           ELSE IF file.size >= MAX_FILE_SIZE
           THEN /\ timer' = ClearTimeout(timer)
                /\ promise' = Reject(promise, "too_large")
                /\ readPc' = "end"
                /\ UNCHANGED fsTrace
           ELSE /\ readPc' = "readFile"
                /\ fsTrace' = Append(fsTrace,
                                  FsCall("readFile", FilePath(<<"alice">>, promise.file)))
                /\ UNCHANGED <<timer, promise>>
        /\ UNCHANGED readUnchanged

\* await stat(filePath) settles: the catch block, the size check, or the
\* call of readFile.
StatSettles ==
    LET file == store.files[promise.file]
    IN  /\ readPc = "stat"
        /\ IF file.err # "none" /\ file.errAt = "stat"
           THEN /\ timer' = ClearTimeout(timer)
                /\ promise' = Reject(promise, CatchOutcome(file.err))
                /\ readPc' = "end"
                /\ UNCHANGED fsTrace
           ELSE IF file.size > MAX_FILE_SIZE
           THEN /\ timer' = ClearTimeout(timer)
                /\ promise' = Reject(promise, "too_large")
                /\ readPc' = "end"
                /\ UNCHANGED fsTrace
           ELSE /\ readPc' = "readFile"
                /\ fsTrace' = Append(fsTrace,
                                  FsCall("readFile", FilePath(<<"alice">>, promise.file)))
                /\ UNCHANGED <<timer, promise>>
        /\ UNCHANGED readUnchanged

\* await readFile(filePath, 'utf-8') settles: resolve(content) or the catch
\* block.
ReadFileSettles ==
    LET file == store.files[promise.file]
    IN  /\ readPc = "readFile"
        /\ timer' = ClearTimeout(timer)
        /\ promise' = IF file.err # "none" THEN Reject(promise, CatchOutcome(file.err))
                      ELSE Resolve(promise, file.text)
        /\ readPc' = "end"
        /\ UNCHANGED <<fsTrace, readUnchanged>>

\* The timer firing without a rejection.
TimerFires_NoReject ==
    /\ timer = "armed"
    /\ timer' = "fired"
    /\ UNCHANGED <<promise, readPc, fsTrace, readUnchanged>>

\* The callback of setTimeout: reject(new Error(`File read timeout ...`)).
TimerFires ==
    /\ timer = "armed"
    /\ timer' = "fired"
    /\ promise' = Reject(promise, "timeout")
    /\ UNCHANGED <<readPc, fsTrace, readUnchanged>>

\* The handler goes on after its await: with the content, or in its catch
\* block.
ReadSettled ==
    /\ pc \in {"q_read", "i_read"}
    /\ promise.state # "pending"
    /\ IF promise.state = "rejected"
       THEN Return(CaughtError(request.subject_name, promise.outcome))
            /\ UNCHANGED fileContent
       ELSE /\ fileContent' = promise.content
            /\ IF pc = "q_read" THEN pc' = "q_scan" /\ UNCHANGED response
               ELSE Return(Info(request.subject_name, Trim(promise.content)))
    /\ UNCHANGED <<store, request, rsids, fsTrace, items, subjects, otherVars>>

NextRead ==
    \/ ReadCall
    \/ StatSettles
    \/ ReadFileSettles
    \/ TimerFires
    \/ ReadSettled
    \/ QueryScan

SpecRead == InitRead /\ [][NextRead]_vars

\* The step of QueryScan as the handler's position shows it: the scan is
\* code without an await, so the handler does not stay at it.
ScanReturns == pc = "q_scan" /\ pc' = "done"

\* The timer fires unless it is cleared, and the handler runs when it can;
\* nothing is assumed of stat and readFile, which may never settle.
SpecReadLive ==
    /\ SpecRead
    /\ WF_vars(ReadCall)
    /\ WF_vars(TimerFires)
    /\ WF_vars(ReadSettled)
    /\ WF_pc(ScanReturns)

(***************************************************************************)
(* SpecConcurrent: several requests in flight.  Each call of the handler   *)
(* has its own locals; a step runs one handler from one await to the next  *)
(* (or to its return), and the steps of different requests interleave.     *)
(***************************************************************************)

\* The requests in flight at a time.
MaxInflight == 2

\* The locals of one call of the handler.
Idle == [pc |-> "idle", request |-> NoRequest, rsids |-> <<>>, fileContent |-> <<>>,
         items |-> <<>>, subjects |-> <<>>, response |-> NoResponse, fsTrace |-> <<>>]

\* The handler called with a request.
Called(req) == [Idle EXCEPT !.pc = "start", !.request = req]

\* return r
Returned(l, r) == [l EXCEPT !.pc = "done", !.response = r]

\* One call more in the trace of the locals.
Traced(l, call, path) == [l EXCEPT !.fsTrace = Append(@, FsCall(call, path))]

\* One handler run from where it stands to its next await or to its return,
\* over the store st: the actions of Spec as a function of the locals.
HandlerStep(l, st) ==
    LET name == l.request.name
        subject_name == l.request.subject_name
        infoFile == IF name = "get_test_info" THEN "test_info.txt" ELSE "subject_info.txt"
        norm == NormalizeRsids(l.request.rsids)
        gate == PrivacyGate(norm.rsids)
        names == [i \in 1..Len(st.entries) |-> st.entries[i].name]
        item == Head(l.items)
        found == SelectSeq(st.entries, LAMBDA e : e.name = item)
        subs == IF found # <<>> /\ directoryExists(found[1].kind)
                THEN Append(l.subjects, item) ELSE l.subjects
        file == IF l.pc = "q_read" THEN "snp.txt" ELSE infoFile
        read == safeReadFile(st.files[file])
        afterRead == [l EXCEPT !.fsTrace = @ \o ReadCalls(read, FilePath(subject_name, file))]
    IN  CASE l.pc = "start" /\ name = "list_subjects" ->
               IF directoryExists(st.root)
               THEN [Traced(l, "stat", <<"SAMPLES_DIR">>) EXCEPT !.pc = "l_readdir"]
               ELSE Returned(Traced(l, "stat", <<"SAMPLES_DIR">>), SubjectList(<<>>))
          [] l.pc = "l_readdir" ->
               IF st.listing # "ok"
               THEN Returned(Traced(l, "readdir", <<"SAMPLES_DIR">>), ListError(st.listing))
               ELSE IF names = <<>>
               THEN Returned(Traced(l, "readdir", <<"SAMPLES_DIR">>),
                             ListReturn(<<>>, l.request.pattern))
               ELSE [Traced(l, "readdir", <<"SAMPLES_DIR">>) EXCEPT
                         !.pc = "l_item", !.items = names]
          [] l.pc = "l_item" ->
               IF Tail(l.items) = <<>>
               THEN Returned([Traced(l, "stat", ItemPath(item)) EXCEPT
                                  !.items = <<>>, !.subjects = subs],
                             ListReturn(subs, l.request.pattern))
               ELSE [Traced(l, "stat", ItemPath(item)) EXCEPT
                         !.items = Tail(l.items), !.subjects = subs]
          [] l.pc = "start" /\ name \in InfoTools ->
               IF directoryExists(st.dir)
               THEN [Traced(l, "stat", SubjectDir(subject_name)) EXCEPT !.pc = "i_file"]
               ELSE Returned(Traced(l, "stat", SubjectDir(subject_name)),
                             SubjectNotFound(subject_name))
          [] l.pc = "i_file" ->
               IF fileExists(st.files[infoFile])
               THEN [Traced(l, "stat", FilePath(subject_name, infoFile)) EXCEPT
                         !.pc = "i_read"]
               ELSE Returned(Traced(l, "stat", FilePath(subject_name, infoFile)),
                             NotPresent(subject_name))
          [] l.pc = "i_read" ->
               IF read.outcome = "ok"
               THEN Returned([afterRead EXCEPT !.fileContent = read.content],
                             Info(subject_name, Trim(read.content)))
               ELSE Returned(afterRead, CaughtError(subject_name, read.outcome))
          [] l.pc = "start" /\ name = "query_snp_data" ->
               IF norm.threw
               THEN Returned([l EXCEPT !.rsids = norm.rsids],
                             CaughtError(subject_name, "SyntaxError"))
               ELSE IF gate.outcome # "pass"
               THEN Returned([l EXCEPT !.rsids = norm.rsids],
                             GateResponse(gate, norm.rsids, subject_name))
               ELSE [l EXCEPT !.rsids = norm.rsids, !.pc = "q_dir"]
          [] l.pc = "q_dir" ->
               IF directoryExists(st.dir)
               THEN [Traced(l, "stat", SubjectDir(subject_name)) EXCEPT !.pc = "q_file"]
               ELSE Returned(Traced(l, "stat", SubjectDir(subject_name)),
                             SubjectNotFound(subject_name))
          [] l.pc = "q_file" ->
               IF fileExists(st.files["snp.txt"])
               THEN [Traced(l, "stat", FilePath(subject_name, "snp.txt")) EXCEPT
                         !.pc = "q_read"]
               ELSE Returned(Traced(l, "stat", FilePath(subject_name, "snp.txt")),
                             NoDataFile(subject_name))
          [] l.pc = "q_read" ->
               IF read.outcome = "ok"
               THEN [afterRead EXCEPT !.fileContent = read.content, !.pc = "q_scan"]
               ELSE Returned(afterRead, CaughtError(subject_name, read.outcome))
          [] l.pc = "q_scan" ->
               Returned(l, Result(ScanResult(subject_name, l.fileContent, l.rsids)))
          [] OTHER -> Returned(l, TopLevelError("Unknown tool"))

\* The requests of SpecConcurrent.
ConcurrentRequests ==
    {[name |-> "query_snp_data", subject_name |-> <<"alice">>, rsids |-> r,
      pattern |-> NoPattern] :
        r \in {ArrayInput(<<RS1>>), ArrayInput(<<RS2, RS1>>), StringInput(RS2),
               ArrayInput(<<UpperRS1>>)}}
    \cup {[name |-> n, subject_name |-> <<"alice">>, rsids |-> ArrayInput(<<>>),
           pattern |-> NoPattern] : n \in {"get_test_info", "export_genome"}}
    \cup {[name |-> "list_subjects", subject_name |-> <<"">>, rsids |-> ArrayInput(<<>>),
           pattern |-> q] : q \in {NoPattern, Pattern(<<"b">>)}}

\* The stores of SpecConcurrent: the subject among other entries, with a
\* marker file that holds both identifiers or one of them.
ConcurrentStores ==
    {Store("dir", "ok",
           <<OtherEntries[1], Entry(SubjectEntry, "dir")>> \o Tail(OtherEntries),
           "dir", [BaseFiles EXCEPT !["snp.txt"] = ReadableFile(t)]) :
        t \in {Text(<<HeaderLine, Line(<<RS1, <<"A">> >>), Line(<<RS2, <<"C">> >>)>>),
               Text(<<HeaderLine, Line(<<RS2, <<"T">> >>)>>)}}

InitConcurrent ==
    /\ store \in ConcurrentStores
    /\ inflight = [i \in 1..MaxInflight |-> Idle]
    /\ pc = "unused"
    /\ request = NoRequest
    /\ rsids = <<>>
    /\ fileContent = <<>>
    /\ response = NoResponse
    /\ fsTrace = <<>>
    /\ items = <<>>
    /\ subjects = <<>>
    /\ stage = "unused"
    /\ ValidateUnused
    /\ NormalizeUnused
    /\ ReadUnused

concurrentUnchanged == <<stage, rsid, verdict, rsidsInput, normalized, handlerVars,
                         readVars>>

\* The handler is called while other calls are in flight.
Arrive(i) ==
    /\ inflight[i].pc = "idle"
    /\ \E req \in ConcurrentRequests : inflight' = [inflight EXCEPT ![i] = Called(req)]
    /\ UNCHANGED concurrentUnchanged

\* The step of one handler with rsids a variable of the module, which the
\* step of one request sets for all.
Proceed_SharedRsids(i) ==
    /\ inflight[i].pc \notin {"idle", "done"}
    /\ inflight' = [j \in DOMAIN inflight |->
                       IF j = i THEN HandlerStep(inflight[i], store)
                       ELSE [inflight[j] EXCEPT
                                !.rsids = HandlerStep(inflight[i], store).rsids]]
    /\ UNCHANGED concurrentUnchanged

\* One handler runs from its await to the next, on its own locals.
Proceed(i) ==
    /\ inflight[i].pc \notin {"idle", "done"}
    /\ inflight' = [inflight EXCEPT ![i] = HandlerStep(@, store)]
    /\ UNCHANGED concurrentUnchanged

\* The response is sent and the locals are dropped.
Depart(i) ==
    /\ inflight[i].pc = "done"
    /\ inflight' = [inflight EXCEPT ![i] = Idle]
    /\ UNCHANGED concurrentUnchanged

NextConcurrent == \E i \in 1..MaxInflight : Arrive(i) \/ Proceed(i) \/ Depart(i)

SpecConcurrent == InitConcurrent /\ [][NextConcurrent]_vars

(***************************************************************************)
(* SpecScan: the scan on every text of a few lines, with the actions of    *)
(* Spec.  The handler stands after the read, its list through the gate.    *)
(***************************************************************************)

\* The most lines of a marker file.
MaxLines == 3

\* The lines: empty, blank, a header, rows for two identifiers, a row
\* padded with a space and ended by a carriage return, a row whose last
\* column is empty, a row that starts with a tab, a row with the identifier
\* in its second column.
LinePool ==
    {<<>>, <<" ", "\t">>, HeaderLine,
     Line(<<RS1, <<"A">> >>), Line(<<RS2, <<"C">> >>),
     <<" ">> \o Line(<<RS1, <<"G">> >>) \o <<"\r">>,
     Line(<<RS1, <<"A">>, <<>> >>),
     <<"\t">> \o Line(<<RS2, <<"T">> >>),
     Line(<< <<"x">>, RS1 >>)}

ScanTexts == {Text(ls) : ls \in SeqsUpTo(LinePool, MaxLines)}

\* The lists through the gate: one identifier, two in the order opposite to
\* the file's, one twice, one padded, one twice around another.
ScanLists == {<<RS1>>, <<RS2, RS1>>, <<RS1, RS1>>, <<PaddedRS2>>, <<RS2, RS1, RS2>>}

\* The rsids arguments that give these lists: the arrays, and one of them
\* serialized.
ScanInputs ==
    {ArrayInput(l) : l \in ScanLists} \cup {StringInput(Stringify(<<RS2, RS1, RS2>>))}

InitScan ==
    /\ \E t \in ScanTexts :
          /\ store = SubjectStore("dir", [BaseFiles EXCEPT !["snp.txt"] = ReadableFile(t)])
          /\ fileContent = t
    /\ \E r \in ScanInputs :
          /\ request = [name |-> "query_snp_data", subject_name |-> <<"alice">>,
                        rsids |-> r, pattern |-> NoPattern]
          /\ rsids = NormalizeRsids(r).rsids
    /\ pc = "q_scan"
    /\ response = NoResponse
    /\ fsTrace = <<FsCall("stat", SubjectDir(<<"alice">>)),
                   FsCall("stat", FilePath(<<"alice">>, "snp.txt")),
                   FsCall("stat", FilePath(<<"alice">>, "snp.txt")),
                   FsCall("readFile", FilePath(<<"alice">>, "snp.txt"))>>
    /\ items = <<>>
    /\ subjects = <<>>
    /\ stage = "unused"
    /\ ValidateUnused
    /\ NormalizeUnused
    /\ ReadUnused
    /\ ConcurrentUnused

NextScan == QueryScan \/ Respond

SpecScan == InitScan /\ [][NextScan]_vars

(***************************************************************************)
(* The shipped server (server/index.js, the entry point of the package):   *)
(* its query_snp_data, from the call to the return                         *)
(***************************************************************************)

\* const rsids = Array.isArray(rsidsInput) ? rsidsInput : [rsidsInput]
ServerRsids(input) == IF input.tag = "array" THEN input.val ELSE <<input.val[1]>>

\* safeReadFile of the shipped server: the catch block rejects with the
\* error as it came.
ServerSafeReadFile(file) ==
    LET failed(calls) ==
            [outcome |-> IF file.err = "timeout" THEN "timeout" ELSE file.err,
             content |-> <<>>, calls |-> calls]
    IN  IF file.err # "none" /\ file.errAt = "stat" THEN failed(<<"stat">>)
        ELSE IF file.size > MAX_FILE_SIZE
             THEN [outcome |-> "too_large", content |-> <<>>, calls |-> <<"stat">>]
        ELSE IF file.err # "none" THEN failed(<<"stat", "readFile">>)
        ELSE [outcome |-> "ok", content |-> file.text, calls |-> <<"stat", "readFile">>]

\* The scan of the shipped server: statement for statement that of the
\* source, on the list of the shipped server.
ServerScanResult(subject_name, text, ids) == ScanResult(subject_name, text, ids)

\* case "query_snp_data" of the shipped server: what the handler returns for
\* a request on a store.
ServerQuerySnpData(req, st) ==
    LET ids == ServerRsids(req.rsids)
        invalidRsids == SelectSeq(ids, LAMBDA e : ~validateRsid(e))
        read == ServerSafeReadFile(st.files["snp.txt"])
    IN  IF Len(ids) > 10 THEN TooMany(Len(ids))
        ELSE IF Len(ids) = 0 THEN TooFew
        ELSE IF Len(invalidRsids) > 0 THEN InvalidFormat(invalidRsids)
        ELSE IF ~directoryExists(st.dir) THEN SubjectNotFound(req.subject_name)
        ELSE IF ~fileExists(st.files["snp.txt"]) THEN NoDataFile(req.subject_name)
        ELSE IF read.outcome # "ok" THEN CaughtError(req.subject_name, read.outcome)
        ELSE Result(ServerScanResult(req.subject_name, read.content, ids))

(***************************************************************************)
(* SpecPath: the three operations that take a subject_name, on names with  *)
(* empty parts, "." and "..", with the actions of Spec.  The store says    *)
(* what is found at the paths the request names.                           *)
(***************************************************************************)

\* The most parts of a subject_name.
MaxParts == 2

\* The parts of a name: two plain ones, the empty part (a separator at an
\* end of the name, or the empty name), "." and "..".
PartPool == {"alice", "bob", "", ".", ".."}

\* The names the schema accepts: any string.
PathNames == SeqsUpTo(PartPool, MaxParts) \ {<<>>}

PathRequests ==
    {[name |-> n, subject_name |-> s, rsids |-> ArrayInput(<<>>), pattern |-> NoPattern] :
        n \in InfoTools, s \in PathNames}
    \cup {[name |-> "query_snp_data", subject_name |-> s, rsids |-> ArrayInput(l),
           pattern |-> NoPattern] :
        s \in PathNames, l \in {<<RS1>>, <<NoDigits>>}}

PathStores ==
    {SubjectStore(d, fs) : d \in {"dir", "absent", "file"}, fs \in {BaseFiles, NoFiles}}
    \cup {SubjectStore("dir", [BaseFiles EXCEPT ![n] = FailingFile("EACCES", "readFile")]) :
             n \in FileNames}

\* The handler is called with a request.
InitPath ==
    /\ store \in PathStores
    /\ request \in PathRequests
    /\ pc = "start"
    /\ rsids = <<>>
    /\ fileContent = <<>>
    /\ response = NoResponse
    /\ fsTrace = <<>>
    /\ items = <<>>
    /\ subjects = <<>>
    /\ stage = "unused"
    /\ ValidateUnused
    /\ NormalizeUnused
    /\ ReadUnused
    /\ ConcurrentUnused

NextPath ==
    \/ InfoCheckDir
    \/ InfoCheckFile
    \/ InfoRead
    \/ QueryGate
    \/ QueryCheckDir
    \/ QueryCheckFile
    \/ QueryRead
    \/ QueryScan
    \/ Respond

SpecPath == InitPath /\ [][NextPath]_vars

(***************************************************************************)
(* Bounds and input sets of the two specifications of pure functions       *)
(***************************************************************************)

\* The longest validateRsid argument.
MaxIdLen == 5

\* The longest rsids string drawn character by character.
MaxJsonLen == 5

\* The longest rsids array of SpecNormalize.
MaxNormList == 2

\* The characters of the validateRsid arguments.
IdAlphabet == {"r", "s", "R", "S", "1", "x", " "}

\* The characters of the rsids strings.
JsonAlphabet == {"[", "]", ",", "\"", "0", " ", NBSP}

\* The elements of the rsids arrays of SpecNormalize: an identifier, the
\* empty string, a string that looks like an array, one that needs escapes.
NormPool == {<<"r", "s", "1">>, <<>>, <<"[", "]">>, <<"\"", "\t">>}

NormLists == SeqsUpTo(NormPool, MaxNormList)

\* The rsids arguments of SpecNormalize.
NormInputs ==
    {ArrayInput(l) : l \in NormLists}
    \cup {StringInput(s) : s \in SeqsUpTo(JsonAlphabet, MaxJsonLen)}
    \cup {StringInput(Stringify(l)) : l \in NormLists}
    \cup {StringInput(<<"\n">> \o Stringify(l) \o <<" ">>) : l \in NormLists}
    \cup {StringInput(<<NBSP>> \o Stringify(l)) : l \in NormLists}

(***************************************************************************)
(* SpecValidate: validateRsid on every string, and on the string with      *)
(* white space added or removed around it                                  *)
(***************************************************************************)

InitValidate ==
    /\ stage = "input"
    /\ rsid \in SeqsUpTo(IdAlphabet, MaxIdLen)
    /\ verdict = FALSE
    /\ NormalizeUnused
    /\ HandlerUnused
    /\ ReadUnused
    /\ ConcurrentUnused

\* validateRsid(rsid)
Validate ==
    /\ stage = "input"
    /\ stage' = "done"
    /\ verdict' = validateRsid(rsid)
    /\ UNCHANGED <<rsid, normalizeVars, handlerVars, readVars, concurrentVars>>

\* validateRsid of the string with one more white space character before it
PadStart ==
    /\ stage = "done"
    /\ Len(rsid) < MaxIdLen
    /\ \E c \in TrimSpace \cap IdAlphabet : rsid' = <<c>> \o rsid
    /\ verdict' = validateRsid(rsid')
    /\ UNCHANGED <<stage, normalizeVars, handlerVars, readVars, concurrentVars>>

\* validateRsid of the string with one more white space character after it
PadEnd ==
    /\ stage = "done"
    /\ Len(rsid) < MaxIdLen
    /\ \E c \in TrimSpace \cap IdAlphabet : rsid' = Append(rsid, c)
    /\ verdict' = validateRsid(rsid')
    /\ UNCHANGED <<stage, normalizeVars, handlerVars, readVars, concurrentVars>>

\* validateRsid of the string without its leading white space character
StripStart ==
    /\ stage = "done"
    /\ rsid # <<>> /\ Head(rsid) \in TrimSpace
    /\ rsid' = Tail(rsid)
    /\ verdict' = validateRsid(rsid')
    /\ UNCHANGED <<stage, normalizeVars, handlerVars, readVars, concurrentVars>>

\* validateRsid of the string without its trailing white space character
StripEnd ==
    /\ stage = "done"
    /\ rsid # <<>> /\ rsid[Len(rsid)] \in TrimSpace
    /\ rsid' = SubSeq(rsid, 1, Len(rsid) - 1)
    /\ verdict' = validateRsid(rsid')
    /\ UNCHANGED <<stage, normalizeVars, handlerVars, readVars, concurrentVars>>

NextValidate == Validate \/ PadStart \/ PadEnd \/ StripStart \/ StripEnd

SpecValidate == InitValidate /\ [][NextValidate]_vars

(***************************************************************************)
(* SpecNormalize: the normalization on every rsids argument, and on its    *)
(* own result                                                              *)
(***************************************************************************)

InitNormalize ==
    /\ stage = "input"
    /\ rsidsInput \in NormInputs
    /\ normalized = [threw |-> FALSE, rsids |-> <<>>]
    /\ ValidateUnused
    /\ HandlerUnused
    /\ ReadUnused
    /\ ConcurrentUnused

\* The normalization of rsidsInput.
Normalize ==
    /\ stage = "input"
    /\ stage' = "done"
    /\ normalized' = NormalizeRsids(rsidsInput)
    /\ UNCHANGED <<rsidsInput, validateVars, handlerVars, readVars, concurrentVars>>

\* The normalization of the list a normalization produced.
Renormalize ==
    /\ stage = "done"
    /\ ~normalized.threw
    /\ rsidsInput' = ArrayInput(normalized.rsids)
    /\ normalized' = NormalizeRsids(rsidsInput')
    /\ UNCHANGED <<stage, validateVars, handlerVars, readVars, concurrentVars>>

NextNormalize == Normalize \/ Renormalize

SpecNormalize == InitNormalize /\ [][NextNormalize]_vars


(***************************************************************************)
(* The claims about validateRsid and the normalization                     *)
(***************************************************************************)

\* The Identifier grammar, stated on the string itself: white space, then
\* "rs", then one or more decimal digits, then white space.
InGrammar(s) ==
    \E i \in 1..Len(s) : \E j \in (i + 2)..Len(s) :
        /\ \A k \in 1..(i - 1) : s[k] \in TrimSpace
        /\ \A k \in (j + 1)..Len(s) : s[k] \in TrimSpace
        /\ s[i] = "r"
        /\ s[i + 1] = "s"
        /\ \A k \in (i + 2)..j : s[k] \in {"0", "1", "2", "3", "4", "5", "6", "7", "8", "9"}

\* The strings the claim names: white space inside, an upper-case prefix, a
\* last character (white space aside) that is no digit.
HasInnerSpace(s) ==
    \E i \in 1..Len(s) : \E j \in (i + 1)..Len(s) : \E k \in (j + 1)..Len(s) :
        s[i] \notin TrimSpace /\ s[j] \in TrimSpace /\ s[k] \notin TrimSpace
HasUpperPrefix(s) ==
    \E i \in 1..Len(s) :
        /\ \A k \in 1..(i - 1) : s[k] \in TrimSpace
        /\ s[i] = "R" \/ (i < Len(s) /\ s[i + 1] = "S")
EndsInNonDigit(s) ==
    \E j \in 1..Len(s) :
        /\ \A k \in (j + 1)..Len(s) : s[k] \in TrimSpace
        /\ s[j] \notin TrimSpace \cup {"0", "1", "2", "3", "4", "5", "6", "7", "8", "9"}

VerdictAsClaimed ==
    stage = "done" =>
        /\ verdict <=> InGrammar(rsid)
        /\ rsid = <<>> => ~verdict
        /\ HasInnerSpace(rsid) => ~verdict
        /\ HasUpperPrefix(rsid) => ~verdict
        /\ EndsInNonDigit(rsid) => ~verdict

\* C5: validateRsid(s) is true exactly when s, its surrounding white space
\* aside, is "rs" followed by one or more decimal digits; the empty string,
\* inner white space, an upper-case prefix and a non-digit suffix give false;
\* and a step that adds or removes surrounding white space keeps the verdict.
C5_ValidatorGrammar ==
    [](VerdictAsClaimed) /\ [][stage = "done" => verdict' = verdict]_vars

\* C5 witness: a padded identifier was validated and accepted.
C5_Witness ==
    stage = "done" /\ rsid = <<" ", "r", "s", "1", " ">> /\ verdict

\* A string that starts with "[" and ends with "]", surrounding white space
\* aside.
Bracketed(s) ==
    \E i \in 1..Len(s) : \E j \in i..Len(s) :
        /\ \A k \in 1..(i - 1) : s[k] \in TrimSpace
        /\ \A k \in (j + 1)..Len(s) : s[k] \in TrimSpace
        /\ s[i] = "[" /\ s[j] = "]"

ParsesToArray(s) == JsonParse(s).ok /\ JsonParse(s).isArray

\* Each list of NormLists with its serialization before it.
SerializedLists == {<<Stringify(l), l>> : l \in NormLists}

NormalizedAsClaimed ==
    stage = "done" =>
        /\ ~normalized.threw
        /\ rsidsInput.tag = "array" => normalized.rsids = rsidsInput.val
        /\ rsidsInput.tag = "string" =>
            LET s == rsidsInput.val[1]
            IN  /\ Bracketed(s) /\ ParsesToArray(s) => normalized.rsids = JsonParse(s).elems
                /\ ~(Bracketed(s) /\ ParsesToArray(s)) => normalized.rsids = <<s>>
                /\ \A p \in SerializedLists : s = p[1] => normalized.rsids = p[2]

\* C6: the normalization never throws and yields a list: an array is
\* returned unchanged, so normalizing its result again changes nothing; a
\* bracketed string that parses to an array yields that array (the
\* serialization of a list yields the list); every other string yields the
\* one-element list holding it.
C6_NormalizerContract ==
    [](NormalizedAsClaimed) /\ [][stage = "done" => normalized' = normalized]_vars

\* C6 witness: the serialization of a two-element list was normalized to it.
C6_Witness ==
    /\ stage = "done"
    /\ rsidsInput = StringInput(Stringify(<< <<"r", "s", "1">>, <<>> >>))
    /\ normalized.rsids = << <<"r", "s", "1">>, <<>> >>


(***************************************************************************)
(* The claims about the handler, stated on the variables of Spec with the  *)
(* grammar and the limits written out, not with the operators of the model *)
(***************************************************************************)

\* A query_snp_data request is in flight and its list has been normalized.
QueryNormalized ==
    request.name = "query_snp_data" /\ pc \notin {"idle", "start"}

\* The handler of a query_snp_data request has returned.
QueryReturned == request.name = "query_snp_data" /\ pc = "done"

\* An element that satisfies the Identifier grammar.
ElementOk(e) == IsString(e) /\ InGrammar(e)

\* The elements of a list that fail validation, in the order of the list.
FailingElements(list) == SelectSeq(list, LAMBDA e : ~ElementOk(e))

\* A list the gate is to pass, and one it is to reject.
Passable(list) ==
    Len(list) \in 1..10 /\ \A i \in 1..Len(list) : ElementOk(list[i])
Rejectable(list) ==
    Len(list) = 0 \/ Len(list) > 10 \/ \E i \in 1..Len(list) : ~ElementOk(list[i])

\* The handler went past the gate: it stands at a filesystem call, or it
\* returned what only the code after the gate returns.
WentPastGate ==
    \/ pc \in {"q_dir", "q_file", "q_read", "q_scan"}
    \/ /\ pc = "done"
       /\ \/ response.kind \in {"subject_not_found", "no_data_file", "result"}
          \/ response.kind = "caught_error"
             /\ response.cause \notin {"TypeError", "SyntaxError"}

\* C1: when a query whose normalized list is empty, longer than 10 or holds
\* an element that fails validation returns, it returns an error payload and
\* no filesystem call was made for it.
C1_NoFileAccessOnRejection ==
    QueryReturned /\ Rejectable(rsids) =>
        /\ fsTrace = <<>>
        /\ response.fields = {"error"}

\* C1 witness: a query for 11 identifiers returned "too many" and made no
\* filesystem call.
C1_Witness ==
    /\ QueryReturned
    /\ Len(rsids) = 11
    /\ response.kind = "too_many"
    /\ fsTrace = <<>>

\* C2: the gate rejects the empty list ("too few") and every list longer
\* than 10 ("too many"), and passes every list of 1 to 10 valid elements.
C2_GateCardinality ==
    QueryNormalized =>
        /\ Len(rsids) = 0 => pc = "done" /\ response.kind = "too_few"
        /\ Len(rsids) > 10 => pc = "done" /\ response.kind = "too_many"
        /\ Passable(rsids) => WentPastGate

\* C2 witness: a list of exactly 10 valid identifiers went past the gate.
C2_Witness ==
    /\ QueryNormalized
    /\ Len(rsids) = 10
    /\ pc = "q_dir"

\* C3: a list longer than 10 gets "too many" whatever its elements are, and
\* "invalid format" is returned only for lists of 1 to 10 elements.
C3_CardinalityBeforeFormat ==
    QueryReturned =>
        /\ Len(rsids) > 10 => response.kind = "too_many" /\ response.count = Len(rsids)
        /\ response.kind = "invalid_format" => Len(rsids) \in 1..10

\* C3 witness: a list of 11 elements, none of them a valid identifier, got
\* "too many".
C3_Witness ==
    /\ QueryReturned
    /\ Len(rsids) = 11
    /\ \A i \in 1..Len(rsids) : ~ElementOk(rsids[i])
    /\ response.kind = "too_many"

\* C4: a normalized list of 1 to 10 elements with an element that fails
\* validation (the elements of a parsed string need not be strings) is
\* rejected with "invalid format", whose text names the failing elements,
\* all of them, in the order of the list.
C4_InvalidFormatNamesFailing ==
    QueryNormalized /\ Len(rsids) \in 1..10
                    /\ (\E i \in 1..Len(rsids) : ~ElementOk(rsids[i])) =>
        /\ pc = "done"
        /\ response.kind = "invalid_format"
        /\ JsonParse(response.detail).elems = FailingElements(rsids)

\* C4 holds of the lists whose elements are all strings.
C4_StringListsNamed ==
    QueryNormalized /\ Len(rsids) \in 1..10
                    /\ (\A i \in 1..Len(rsids) : IsString(rsids[i]))
                    /\ (\E i \in 1..Len(rsids) : ~ElementOk(rsids[i])) =>
        /\ pc = "done"
        /\ response.kind = "invalid_format"
        /\ JsonParse(response.detail).elems = FailingElements(rsids)

\* C7: while the marker file is read and scanned, the list has 1 to 10
\* elements and each satisfies the Identifier grammar.
C7_ListValidAtScan ==
    pc \in {"q_read", "q_scan"} => Passable(rsids)

\* C7 witness: the scan is about to run on a list of 10 identifiers.
C7_Witness ==
    pc = "q_scan" /\ Len(rsids) = 10 /\ fileContent # <<>>

\* The calls of a query that reads its file, in order.
QueryCalls ==
    <<FsCall("stat", <<"SAMPLES_DIR">> \o request.subject_name),
      FsCall("stat", <<"SAMPLES_DIR">> \o request.subject_name \o <<"snp.txt">>),
      FsCall("stat", <<"SAMPLES_DIR">> \o request.subject_name \o <<"snp.txt">>),
      FsCall("readFile", <<"SAMPLES_DIR">> \o request.subject_name \o <<"snp.txt">>)>>

\* C8: a query that passes the gate checks the directory, then the file,
\* then reads: without the directory it returns "subject not found" whether
\* or not the path of the data file exists; with the directory and without
\* the file it returns "no data file"; the read starts only after both
\* checks succeeded.
C8_ExistenceChecksInOrder ==
    request.name = "query_snp_data" =>
        /\ Len(fsTrace) <= 4 /\ fsTrace = SubSeq(QueryCalls, 1, Len(fsTrace))
        /\ Len(fsTrace) >= 3 => store.dir = "dir" /\ store.files["snp.txt"].exists
        /\ pc = "done" /\ Passable(rsids) /\ store.dir # "dir" =>
               response.kind = "subject_not_found"
        /\ pc = "done" /\ Passable(rsids) /\ store.dir = "dir"
                       /\ ~store.files["snp.txt"].exists =>
               response.kind = "no_data_file"

\* C8 witness: the directory is missing, the path of the data file answers
\* to stat, and the query returned "subject not found" after one call.
C8_Witness ==
    /\ QueryReturned
    /\ store.dir = "absent"
    /\ store.files["snp.txt"].exists
    /\ response.kind = "subject_not_found"
    /\ Len(fsTrace) = 1

\* The NotFound-shaped result: an error payload about the subject, without
\* the top-level failure marker.
NotFoundShaped(r, subject_name) ==
    /\ r.kind = "subject_not_found"
    /\ r.fields = {"error"}
    /\ r.subject = subject_name
    /\ ~r.isError

\* C9 as stated: every request of the three operations that names a subject
\* whose directory does not exist returns a NotFound-shaped error.
C9_NotFoundForEveryRequest ==
    /\ pc = "done"
    /\ request.name \in {"get_subject_info", "get_test_info", "query_snp_data"}
    /\ store.dir # "dir"
    => NotFoundShaped(response, request.subject_name)

\* C9 amended: get_subject_info and get_test_info always, and query_snp_data
\* when its list passes the gate (1 to 10 elements, all valid identifiers),
\* return a NotFound-shaped error for a subject whose directory does not
\* exist.
C9_NotFoundPastGate ==
    /\ pc = "done"
    /\ request.name \in {"get_subject_info", "get_test_info", "query_snp_data"}
    /\ request.name = "query_snp_data" => Passable(rsids)
    /\ store.dir # "dir"
    => NotFoundShaped(response, request.subject_name)

\* C9 witness: get_test_info on a subject path that is no directory.
C9_Witness ==
    /\ pc = "done"
    /\ request.name = "get_test_info"
    /\ store.dir = "file"
    /\ NotFoundShaped(response, request.subject_name)

\* u is t without its leading and trailing white space.
IsTrimOf(u, t) ==
    /\ u # <<>> => u[1] \notin TrimSpace /\ u[Len(u)] \notin TrimSpace
    /\ \E i \in 0..Len(t) :
          /\ i + Len(u) <= Len(t)
          /\ SubSeq(t, i + 1, i + Len(u)) = u
          /\ \A k \in 1..i : t[k] \in TrimSpace
          /\ \A k \in (i + Len(u) + 1)..Len(t) : t[k] \in TrimSpace

\* What an info operation is to return for its file in an existing directory.
InfoAsClaimed(file) ==
    /\ ~file.exists =>
          /\ response.kind = "not_present"
          /\ response.fields = {"subject", "info", "message"}
          /\ response.infoNull
          /\ response.subject = request.subject_name
          /\ ~response.isError
    /\ file.exists /\ file.err = "none" /\ file.size <= 104857600 =>
          /\ response.kind = "info"
          /\ response.fields = {"subject", "info"}
          /\ ~response.infoNull
          /\ response.subject = request.subject_name
          /\ ~response.isError
          /\ IsTrimOf(response.info, file.text)

\* C10: in an existing subject directory, get_subject_info and get_test_info
\* return the "not present" payload (subject, info null, a message, no error
\* field) when their file is absent, and the text of the file without its
\* leading and trailing white space when it is present and readable.
C10_InfoOperations ==
    pc = "done" /\ store.dir = "dir" =>
        /\ request.name = "get_subject_info" => InfoAsClaimed(store.files["subject_info.txt"])
        /\ request.name = "get_test_info" => InfoAsClaimed(store.files["test_info.txt"])

\* C10 witness: get_subject_info returned a padded text without its padding.
C10_Witness ==
    /\ pc = "done"
    /\ request.name = "get_subject_info"
    /\ store.files["subject_info.txt"].text = <<" ", "h", "i", "\n">>
    /\ response.kind = "info"
    /\ response.info = <<"h", "i">>

(***************************************************************************)
(* The claims about list_subjects (SpecList)                               *)
(***************************************************************************)

ListReturned == pc = "done" /\ request.name = "list_subjects"

\* The pattern argument filters: it is given, not empty, and compiles.
Filters(q) == q.given /\ q.text # <<>> /\ ~RegExpThrows(q.text)

Malformed(q) == q.given /\ q.text # <<>> /\ RegExpThrows(q.text)

\* The names list_subjects is to return: the entries that are directories
\* and that the pattern, if it filters, matches.
Listed ==
    {e.name : e \in {x \in {store.entries[i] : i \in 1..Len(store.entries)} :
                        /\ x.kind = "dir"
                        /\ Filters(request.pattern) => RegExpTest(request.pattern.text, x.name)}}

\* C11: list_subjects returns the empty list, and no error, when SAMPLES_DIR
\* is no directory; when it is one that readdir lists and the pattern, if
\* any, compiles, the result holds exactly the entries that are directories
\* (and match the pattern), each once, in ascending order of their code
\* units, whatever the order of readdir.
C11_ListSubjects ==
    ListReturned =>
        /\ store.root # "dir" => response = SubjectList(<<>>) /\ ~response.isError
        /\ store.root = "dir" /\ store.listing = "ok" /\ ~Malformed(request.pattern) =>
               /\ response.kind = "subjects"
               /\ ~response.isError
               /\ {response.list[i] : i \in 1..Len(response.list)} = Listed
               /\ Len(response.list) = Cardinality(Listed)
               /\ \A i \in 1..(Len(response.list) - 1) :
                      LessThan(response.list[i], response.list[i + 1])

\* Three entries that readdir returns in descending order, two of them
\* listed under a pattern.
C11_Witness ==
    /\ ListReturned
    /\ Len(store.entries) = 3
    /\ LessThan(store.entries[3].name, store.entries[2].name)
    /\ LessThan(store.entries[2].name, store.entries[1].name)
    /\ Filters(request.pattern)
    /\ Len(response.list) = 2

\* C12 as stated: a list_subjects request with a pattern that does not
\* compile gets the pattern error, which differs from the empty list, in
\* every state of SAMPLES_DIR.
C12_PatternErrorAlways ==
    ListReturned /\ Malformed(request.pattern) =>
        /\ response.kind = "pattern_error"
        /\ response.list # <<>>

\* C12: a list_subjects request with a pattern that does not compile gets
\* the pattern error (an array of one string that embeds the pattern, never
\* the empty array of a pattern without match) when SAMPLES_DIR is a
\* directory that readdir lists, empty or not; it gets the empty list when
\* SAMPLES_DIR is no directory, and the directory error when readdir fails.
C12_PatternErrorWhenListed ==
    ListReturned /\ Malformed(request.pattern) =>
        /\ store.root = "dir" /\ store.listing = "ok" =>
               /\ response = PatternError(request.pattern.text)
               /\ response.list # SubjectList(<<>>).list
               /\ Len(response.list) = 1
               /\ ~response.isError
        /\ store.root # "dir" => response = SubjectList(<<>>)
        /\ store.root = "dir" /\ store.listing # "ok" => response.kind = "list_error"

\* A pattern that does not compile, over a directory with entries.
C12_Witness ==
    /\ ListReturned
    /\ Malformed(request.pattern)
    /\ Len(store.entries) >= 2
    /\ response.kind = "pattern_error"

(***************************************************************************)
(* The claims about failures (Spec)                                        *)
(***************************************************************************)

Operations == InfoTools \cup {"query_snp_data", "list_subjects"}

\* How the read of the request in flight fails, "ok" if it does not, "none"
\* if the request does not reach a read.
ReadFailure ==
    IF request.name = "query_snp_data"
    THEN IF Passable(rsids) /\ store.dir = "dir" /\ store.files["snp.txt"].exists
         THEN safeReadFile(store.files["snp.txt"]).outcome ELSE "none"
    ELSE IF request.name \in InfoTools
    THEN IF store.dir = "dir"
            /\ store.files[IF request.name = "get_test_info" THEN "test_info.txt"
                           ELSE "subject_info.txt"].exists
         THEN safeReadFile(store.files[IF request.name = "get_test_info"
                                       THEN "test_info.txt"
                                       ELSE "subject_info.txt"]).outcome
         ELSE "none"
    ELSE "none"

\* C13: no response of the four operations carries the top-level failure
\* marker; a read that fails (file too large, timeout, permission denied,
\* file gone since the existence check, any other error) and a readdir that
\* fails yield a payload that holds the error only and names the failure;
\* and the payload of a query_snp_data response holds either the error only
\* or the seven result fields.
C13_FailuresAreStructured ==
    pc = "done" /\ request.name \in Operations =>
        /\ ~response.isError
        /\ ReadFailure \notin {"ok", "none"} =>
               /\ response.kind = "caught_error"
               /\ response.fields = {"error"}
               /\ response.cause = ReadFailure
        /\ request.name = "list_subjects" /\ store.root = "dir" /\ store.listing # "ok" =>
               /\ response.kind = "list_error"
               /\ response.cause = store.listing
               /\ Len(response.list) = 1
        /\ request.name = "query_snp_data" =>
               \/ response.fields = {"error"} /\ response.kind # "result"
               \/ response.fields = ResultFields /\ response.kind = "result"

\* A query whose read found the file too large.
C13_Witness ==
    /\ pc = "done"
    /\ request.name = "query_snp_data"
    /\ ReadFailure = "too_large"
    /\ response.kind = "caught_error"

\* C14: a request that names no operation of the four is answered, with the
\* top-level failure marker and without any filesystem call: where its
\* handler starts it can return, and it is never anywhere but at its start
\* or returned.
C14_UnknownOperation ==
    request.name \notin Operations \cup {"none"} =>
        /\ pc \in {"start", "done"}
        /\ pc = "start" => ENABLED UnknownTool
        /\ pc = "done" => /\ response.isError
                          /\ response.kind = "top_level_error"
                          /\ response.cause = "Unknown tool"
        /\ fsTrace = <<>>

C14_Witness ==
    /\ pc = "done"
    /\ request.name = "export_genome"
    /\ response.isError

(***************************************************************************)
(* The claims about safeReadFile (SpecRead, SpecReadLive)                  *)
(***************************************************************************)

ReadCalled == readPc \in {"stat", "readFile", "end"}

\* The file safeReadFile was called with.
FileOfRead == store.files[promise.file]

\* stat reports a size: it does not fail.
StatSucceeds(file) == ~(file.err # "none" /\ file.errAt = "stat")

ReadFileCalled == \E i \in 1..Len(fsTrace) : fsTrace[i].call = "readFile"

\* C15: when stat reports a size over MAX_FILE_SIZE, safeReadFile never calls
\* readFile and ends rejected, with the too-large error unless the timer had
\* fired while stat was pending; when stat reports exactly MAX_FILE_SIZE,
\* readFile is called, and its content resolves the promise unless the
\* timer fired first.
C15_SizeCap ==
    ReadCalled /\ StatSucceeds(FileOfRead) =>
        /\ FileOfRead.size > MAX_FILE_SIZE =>
               /\ ~ReadFileCalled
               /\ readPc # "readFile"
               /\ readPc = "end" =>
                      /\ promise.state = "rejected"
                      /\ timer # "fired" => promise.outcome = "too_large"
        /\ FileOfRead.size = MAX_FILE_SIZE /\ readPc = "end" =>
               /\ ReadFileCalled
               /\ timer # "fired" /\ FileOfRead.err = "none" =>
                      /\ promise.state = "resolved"
                      /\ promise.content = FileOfRead.text

\* A file one byte over the cap rejected as too large, and the handler's
\* response saying so.
C15_Witness ==
    /\ readPc = "end"
    /\ FileOfRead.size = MAX_FILE_SIZE + 1
    /\ promise.outcome = "too_large"
    /\ ~ReadFileCalled
    /\ pc = "done"
    /\ response.cause = "too_large"

\* The promise is settled as the claim says: by the timer with the timeout
\* error, or else as stat and readFile ended, which is what safeReadFile
\* (the operator) says of the file.
SettledAsClaimed ==
    /\ timer = "fired" => promise.state = "rejected" /\ promise.outcome = "timeout"
    /\ promise.state # "pending" /\ timer # "fired" =>
           /\ readPc = "end"
           /\ promise.outcome = safeReadFile(FileOfRead).outcome
           /\ promise.content = safeReadFile(FileOfRead).content
           /\ promise.outcome \in {"ok", "too_large", "not_found", "permission_denied",
                                   "other"}

\* C16: every call of safeReadFile settles in the end, with the content, the
\* too-large error or the error of stat or readFile when these end before
\* the timer fires, with the timeout error once the timer fires; and every
\* request that stands at the read returns.  Only the timer is taken to be
\* fair: stat and readFile may stay pending for ever.
C16_ReadSettles ==
    /\ [](SettledAsClaimed)
    /\ (ReadCalled ~> promise.state # "pending")
    /\ (pc \in {"q_read", "i_read"} ~> pc = "done")

\* The timer fired while readFile was pending, and the request returned the
\* timeout error.
C16_Witness ==
    /\ readPc = "readFile"
    /\ timer = "fired"
    /\ pc = "done"
    /\ response.kind = "caught_error"
    /\ response.cause = "timeout"

(***************************************************************************)
(* The claim about requests in flight together (SpecConcurrent)            *)
(***************************************************************************)

RECURSIVE RunAlone(_, _)
\* The handler run from the locals l to its return, nothing else running.
RunAlone(l, st) == IF l.pc = "done" THEN l ELSE RunAlone(HandlerStep(l, st), st)

\* The locals of the one request of Spec.
Locals ==
    [pc |-> pc, request |-> request, rsids |-> rsids, fileContent |-> fileContent,
     items |-> items, subjects |-> subjects, response |-> response, fsTrace |-> fsTrace]

\* In Spec, every step of the handler is the step HandlerStep makes.
StepsAsHandlerStep ==
    [][pc \notin {"idle", "done"} => Locals' = HandlerStep(Locals, store)]_vars

Scanned == pc = "done" /\ response.kind = "result"

\* The lines of the file read, and those not empty after trimming.
FileLines == Split(fileContent, "\n")
NonBlank == {i \in 1..Len(FileLines) : Trim(FileLines[i]) # <<>>}

\* The header line: the first that is not empty after trimming (0: none).
HeaderAt == IF NonBlank = {} THEN 0 ELSE CHOOSE i \in NonBlank : \A k \in NonBlank : i <= k

\* The first tab-separated column of a line.
FirstColumn(line) ==
    IF \E i \in 1..Len(line) : line[i] = "\t"
    THEN SubSeq(line, 1, (CHOOSE i \in 1..Len(line) :
                              line[i] = "\t" /\ \A k \in 1..(i - 1) : line[k] # "\t") - 1)
    ELSE line

\* The lines after the header that satisfy pick, in file order, each as
\* shown by show.
RowsWhere(pick(_), show(_)) ==
    LET at == SelectSeq([i \in 1..Len(FileLines) |-> i],
                        LAMBDA i : i \in NonBlank /\ i > HeaderAt /\ pick(FileLines[i]))
    IN  [k \in 1..Len(at) |-> show(FileLines[at[k]])]

\* C18 as stated: matching_rows is the non-blank lines after the header
\* whose first tab-separated column is in the identifier list, their tabs
\* turned to commas, in file order, one entry for each such line.
C18_RowsOfLines ==
    Scanned =>
        response.result.matching_rows =
            RowsWhere(LAMBDA line : Includes(rsids, FirstColumn(line)),
                      LAMBDA line : TabsToCommas(line))

\* C18: matching_rows is the non-blank lines after the header, each trimmed
\* of the white space around it, whose first tab-separated column after the
\* trimming is in the identifier list, their tabs turned to commas, in file
\* order (not in the order of the list), one entry for each such line; and
\* found_count is their number.
C18_RowsOfTrimmedLines ==
    Scanned =>
        /\ response.result.matching_rows =
               RowsWhere(LAMBDA line : Includes(rsids, FirstColumn(Trim(line))),
                         LAMBDA line : TabsToCommas(Trim(line)))
        /\ response.result.found_count = Len(response.result.matching_rows)

\* Rows for two identifiers, queried in the order opposite to the file's.
C18_Witness ==
    /\ Scanned
    /\ rsids = <<RS2, RS1>>
    /\ Len(response.result.matching_rows) = 2
    /\ response.result.matching_rows[1] = <<"r", "s", "1", ",", "A">>
    /\ response.result.matching_rows[2] = <<"r", "s", "2", ",", "C">>

\* C19 as stated: no header and no row is empty after trimming, and the
\* header is the first line not empty after trimming, its tabs turned to
\* commas.
C19_HeaderOfLine ==
    Scanned =>
        /\ response.result.headerNull = (NonBlank = {})
        /\ ~response.result.headerNull =>
               /\ Trim(response.result.header) # <<>>
               /\ response.result.header = TabsToCommas(FileLines[HeaderAt])
        /\ \A k \in 1..Len(response.result.matching_rows) :
               Trim(response.result.matching_rows[k]) # <<>>

\* C19: no header and no row is empty after trimming; the header is null
\* when every line is empty after trimming, and otherwise the first line
\* not empty after trimming, trimmed of the white space around it, its tabs
\* turned to commas; and the result is that of the file without its blank
\* lines.
C19_HeaderOfTrimmedLine ==
    Scanned =>
        /\ response.result.headerNull = (NonBlank = {})
        /\ ~response.result.headerNull =>
               /\ Trim(response.result.header) # <<>>
               /\ response.result.header = TabsToCommas(Trim(FileLines[HeaderAt]))
        /\ \A k \in 1..Len(response.result.matching_rows) :
               Trim(response.result.matching_rows[k]) # <<>>
        /\ response.result =
               ScanResult(request.subject_name,
                          Text(SelectSeq(FileLines, LAMBDA line : Trim(line) # <<>>)),
                          rsids)

\* A blank line before the header and one between the header and a row.
C19_Witness ==
    /\ Scanned
    /\ Len(FileLines) = 3
    /\ HeaderAt = 2
    /\ Trim(FileLines[1]) = <<>> /\ FileLines[1] # <<>>
    /\ response.result.header = <<"i", "d", ",", "g">>

\* C20: a query that reads a marker file whose content is empty or white
\* space only returns a result and no error: header null, no row, no
\* identifier found, found_count 0, and not_found_rsids the whole list.
C20_BlankFile ==
    /\ pc = "done"
    /\ request.name = "query_snp_data"
    /\ Passable(rsids)
    /\ store.dir = "dir"
    /\ safeReadFile(store.files["snp.txt"]).outcome = "ok"
    /\ store.files["snp.txt"].exists
    /\ Trim(store.files["snp.txt"].text) = <<>>
    => /\ response.kind = "result"
       /\ ~response.isError
       /\ response.fields = ResultFields
       /\ response.result.headerNull
       /\ response.result.matching_rows = <<>>
       /\ response.result.found_rsids = <<>>
       /\ response.result.found_count = 0
       /\ response.result.queried_rsids = rsids
       /\ response.result.not_found_rsids = rsids

\* A file of a space and a newline, queried for two identifiers.
C20_Witness ==
    /\ pc = "done"
    /\ request.name = "query_snp_data"
    /\ store.files["snp.txt"].text = <<" ", "\n">>
    /\ response.kind = "result"
    /\ response.result.headerNull
    /\ Len(response.result.not_found_rsids) = 2

(***************************************************************************)
(* The claims about the identifier lists of a result (SpecScan)            *)
(***************************************************************************)

\* The file read, line by line: the lines trimmed, those not empty after
\* trimming, the header among them (0: none), the first column of each
\* trimmed line.
FileFacts ==
    LET lines == Split(fileContent, "\n")
        trimmed == [i \in 1..Len(lines) |-> Trim(lines[i])]
        nonBlank == {i \in 1..Len(lines) : trimmed[i] # <<>>}
    IN  [trimmed |-> trimmed,
         nonBlank |-> nonBlank,
         headerAt |-> IF nonBlank = {} THEN 0
                      ELSE CHOOSE i \in nonBlank : \A k \in nonBlank : i <= k,
         first |-> [i \in 1..Len(lines) |-> FirstColumn(trimmed[i])]]

\* The data rows an identifier matches: the lines after the header, not
\* empty after trimming, whose first column after trimming is the identifier.
RowsIn(f, id) == {i \in f.nonBlank : i > f.headerAt /\ f.first[i] = id}

RowsOf(id) == RowsIn(FileFacts, id)

\* The elements of a list.
Elements(list) == {list[i] : i \in 1..Len(list)}

\* C21: not_found_rsids is the queried list without the elements that match
\* a data row: in the order of the query, with every occurrence of an
\* identifier that matches no row and no occurrence of one that matches.
C21_NotFoundFiltered ==
    Scanned =>
        LET f == FileFacts
            matched == {q \in Elements(rsids) : RowsIn(f, q) # {}}
            notFound == response.result.not_found_rsids
        IN  /\ notFound = SelectSeq(rsids, LAMBDA r : r \notin matched)
            /\ \A q \in Elements(rsids) :
                   Cardinality({k \in 1..Len(notFound) : notFound[k] = q})
                   = IF q \in matched THEN 0
                     ELSE Cardinality({k \in 1..Len(rsids) : rsids[k] = q})

\* An identifier queried twice and missing, around one that is found.
C21_Witness ==
    /\ Scanned
    /\ rsids = <<RS2, RS1, RS2>>
    /\ response.result.found_rsids = <<RS1>>
    /\ response.result.not_found_rsids = <<RS2, RS2>>

\* The first of a set of rows.
First(rows) == CHOOSE i \in rows : \A k \in rows : i <= k

\* C22: queried_rsids is the normalized list, its order and its duplicates
\* kept; found_rsids holds each identifier that matches a data row, once, in
\* the order of their first matching rows in the file.
C22_QueriedAndFound ==
    Scanned =>
        LET f == FileFacts
            found == response.result.found_rsids
        IN  /\ response.result.queried_rsids = NormalizeRsids(request.rsids).rsids
            /\ Elements(found) = {q \in Elements(rsids) : RowsIn(f, q) # {}}
            /\ \A a, b \in 1..Len(found) :
                   a < b => First(RowsIn(f, found[a])) < First(RowsIn(f, found[b]))

\* Two identifiers found in the order of the file, queried in the other
\* order as a serialized list.
C22_Witness ==
    /\ Scanned
    /\ request.rsids.tag = "string"
    /\ response.result.queried_rsids = <<RS2, RS1, RS2>>
    /\ response.result.found_rsids = <<RS1, RS2>>
    /\ Len(response.result.matching_rows) = 2

\* C25: found_rsids and not_found_rsids part the queried identifiers: each
\* element of queried_rsids is in exactly one of them, found_rsids holds
\* queried identifiers only, and the two share no element.
C25_FoundAndNotFoundPartition ==
    Scanned =>
        LET r == response.result
        IN  /\ \A q \in Elements(r.queried_rsids) :
                   (q \in Elements(r.found_rsids)) # (q \in Elements(r.not_found_rsids))
            /\ Elements(r.found_rsids) \subseteq Elements(r.queried_rsids)
            /\ Elements(r.found_rsids) \cap Elements(r.not_found_rsids) = {}

\* One of two queried identifiers found, the other not.
C25_Witness ==
    /\ Scanned
    /\ response.result.queried_rsids = <<RS2, RS1>>
    /\ response.result.found_rsids = <<RS1>>
    /\ response.result.not_found_rsids = <<RS2>>

\* C26: found_count is the length of matching_rows, the number of matching
\* rows: at least the number of identifiers found, more exactly when some
\* identifier matches more than one data row, and 0 exactly when no
\* identifier is found.
C26_FoundCountCountsRows ==
    Scanned =>
        LET f == FileFacts
            r == response.result
        IN  /\ r.found_count = Len(r.matching_rows)
            /\ r.found_count = Cardinality(UNION {RowsIn(f, q) : q \in Elements(rsids)})
            /\ r.found_count >= Len(r.found_rsids)
            /\ (r.found_count > Len(r.found_rsids))
                   = (\E q \in Elements(rsids) : Cardinality(RowsIn(f, q)) > 1)
            /\ (r.found_count = 0) = (r.found_rsids = <<>>)

\* One identifier in two data rows.
C26_Witness ==
    /\ Scanned
    /\ response.result.found_count = 2
    /\ response.result.found_rsids = <<RS1>>

\* C27: the first line that is not empty after trimming is the header and
\* is never matched: when its first column is a queried identifier, the
\* line adds no row to matching_rows, and the identifier is in found_rsids
\* only when a later line matches it.
C27_HeaderNeverMatched ==
    Scanned =>
        LET f == FileFacts
            r == response.result
        IN  f.headerAt # 0 /\ Includes(rsids, f.first[f.headerAt]) =>
                LET id == f.first[f.headerAt]
                IN  /\ r.header = TabsToCommas(f.trimmed[f.headerAt])
                    /\ Len(r.matching_rows)
                           = Cardinality(UNION {RowsIn(f, q) : q \in Elements(rsids)})
                    /\ Includes(r.found_rsids, id) = (RowsIn(f, id) # {})
                    /\ RowsIn(f, id) = {} => Includes(r.not_found_rsids, id)

\* A file whose only line is a row of the queried identifier.
C27_Witness ==
    /\ Scanned
    /\ fileContent = Line(<<RS1, <<"A">> >>)
    /\ rsids = <<RS1>>
    /\ response.result.header = <<"r", "s", "1", ",", "A">>
    /\ response.result.matching_rows = <<>>
    /\ response.result.not_found_rsids = <<RS1>>

\* C23: each matched data row has in the output as many columns as its file
\* line has between tabs, and every column after the first is the column of
\* the file line at the same place (white space at the ends of a column is
\* not counted as a change here), rows with an empty first or last column
\* included.
C23_PayloadUnchanged ==
    Scanned =>
        LET f == FileFacts
            lines == Split(fileContent, "\n")
            rows == response.result.matching_rows
            at == SelectSeq([i \in 1..Len(lines) |-> i],
                            LAMBDA i : i \in f.nonBlank /\ i > f.headerAt
                                       /\ Includes(rsids, f.first[i]))
        IN  /\ Len(rows) = Len(at)
            /\ \A k \in 1..Len(at) :
                   LET cols == Split(lines[at[k]], "\t")
                       out == Split(rows[k], ",")
                   IN  /\ Len(out) = Len(cols)
                       /\ \A j \in 2..Len(cols) : Trim(out[j]) = Trim(cols[j])

\* C28: an identifier the gate accepts, padded with white space or not, is
\* found when a data row has its trimmed form as first column: it (or its
\* trimmed form) is in found_rsids, and it is not in not_found_rsids.
C28_TrimmedFormMatched ==
    Scanned =>
        LET f == FileFacts
            r == response.result
        IN  \A q \in Elements(rsids) :
                validateRsid(q) /\ RowsIn(f, Trim(q)) # {} =>
                    /\ Includes(r.found_rsids, q) \/ Includes(r.found_rsids, Trim(q))
                    /\ ~Includes(r.not_found_rsids, q)

(***************************************************************************)
(* The race of the read and the timer (SpecRead)                           *)
(***************************************************************************)

\* C24: the promise of safeReadFile settles once, and the first of the I/O
\* and the timer decides: once the timer has fired the promise is rejected
\* with the timeout error and stays so, whatever stat and readFile do later;
\* once stat or readFile has ended the read before the timer fired, the
\* timer is cleared, it never fires, and the outcome is never the timeout
\* error.
C24_FirstSettles ==
    /\ [][promise.state # "pending" => promise' = promise]_vars
    /\ [][timer = "fired" => timer' = "fired" /\ promise' = promise]_vars
    /\ [][timer = "cleared" => timer' = "cleared"]_vars
    /\ [](timer = "fired" => promise.state = "rejected" /\ promise.outcome = "timeout")
    /\ [](readPc = "end" /\ timer # "fired" =>
              /\ timer = "cleared"
              /\ promise.state # "pending"
              /\ promise.outcome # "timeout")
    /\ [](promise.state # "pending" => timer \in {"fired", "cleared"})

\* The timer fired, readFile then ended with the content, and the request
\* returned the timeout error.
C24_Witness ==
    /\ readPc = "end"
    /\ timer = "fired"
    /\ ReadFileCalled
    /\ FileOfRead.err = "none"
    /\ promise.state = "rejected"
    /\ promise.outcome = "timeout"
    /\ pc = "done"
    /\ response.cause = "timeout"

(***************************************************************************)
(* The paths of the operations that take a subject_name (SpecPath)         *)
(***************************************************************************)

\* A part that names an entry: not empty, not "." and not "..".
PlainPart(part) == part \notin {"", ".", ".."}

\* A sub-directory right under SAMPLES_DIR, and one of the three files right
\* under such a sub-directory.
ImmediateSubDir(path) ==
    Len(path) = 2 /\ path[1] = "SAMPLES_DIR" /\ PlainPart(path[2])
FileInSubDir(path) ==
    /\ Len(path) = 3
    /\ ImmediateSubDir(SubSeq(path, 1, 2))
    /\ path[3] \in FileNames

\* C29: whatever the subject_name, every path that get_test_info,
\* get_subject_info and query_snp_data check or read is a sub-directory
\* right under SAMPLES_DIR (the directory check) or a file right under such
\* a sub-directory; nothing is read outside SAMPLES_DIR or right under it.
C29_PathsUnderSubject ==
    request.name \in InfoTools \cup {"query_snp_data"} =>
        \A i \in 1..Len(fsTrace) :
            /\ ImmediateSubDir(fsTrace[i].path) \/ FileInSubDir(fsTrace[i].path)
            /\ fsTrace[i].call = "readFile" => FileInSubDir(fsTrace[i].path)

(***************************************************************************)
(* The shipped server and the source (Spec)                                *)
(***************************************************************************)

\* The outcome classes of a query: too many, too few, invalid format,
\* subject not found, no data file, read error, result.
OutcomeClass(r) == IF r.kind = "caught_error" THEN "read_error" ELSE r.kind

\* C30: for every rsids argument (an array, a string, a serialized array)
\* and every store, the query_snp_data of the shipped server returns what
\* that of the source returns: the same outcome class, and on success the
\* same seven fields.
C30_ShippedServerEquivalent ==
    QueryReturned =>
        LET shipped == ServerQuerySnpData(request, store)
        IN  /\ OutcomeClass(response) = OutcomeClass(shipped)
            /\ response.kind = "result" =>
                   /\ shipped.fields = response.fields
                   /\ shipped.result = response.result

=============================================================================
